---- MODULE Spec2Model ----
(***************************************************************************)
(* JeevanQR: the self-contained token codec (backend/server.js), the       *)
(* registration / resolution / photo handlers built on it, and the         *)
(* auxiliary store (backend/database.js).                                  *)
(*                                                                         *)
(* JavaScript values are modelled as records tagged by their type t, the   *)
(* value in a field named after the type (b, n, s, a, o).  A string is a   *)
(* sequence of one-character strings, so that trimming, digit stripping,   *)
(* JSON text and base64 are computed character by character.  An object    *)
(* is a function from property names to values.                            *)
(***************************************************************************)
EXTENDS Integers, Sequences, FiniteSets, TLC

VARIABLES
  serverless,    \* the process runs with VERCEL set: memory only, no files
  now,           \* the clock, in milliseconds
  users,         \* database.js: token -> user record
  accidentLogs,  \* database.js: the accident log
  photos,        \* database.js: viewToken -> photo record
  inherited,     \* properties the process has added to the built-in Object
  disk,          \* users.json, accident_logs.json, photos.json
  issued,        \* history: token -> request body of the Register that issued it
  served,        \* history: viewToken -> photo pages served by this process
  resp,          \* the last request and its response
  codec,         \* the last direct call of the codec and its result
  invocation     \* the call of the Netlify function in flight, if any

vars == <<serverless, now, users, accidentLogs, photos, inherited, disk,
          issued, served, resp, codec, invocation>>

(***************************************************************************)
(* JavaScript values                                                       *)
(***************************************************************************)
Undefined == [t |-> "undefined"]
Null == [t |-> "null"]
Bool(b) == [t |-> "boolean", b |-> b]
Num(n) == [t |-> "number", n |-> n]
Str(s) == [t |-> "string", s |-> s]
Arr(a) == [t |-> "array", a |-> a]
Obj(f) == [t |-> "object", o |-> f]

\* The value of a thrown exception; an operator that can throw returns it.
Throw(name) == [t |-> "throw", e |-> name]

IsThrow(x) == x.t = "throw"

\* !x of JavaScript: undefined, null, false, 0 and "" are falsy.
Falsy(x) ==
  \/ x.t \in {"undefined", "null"}
  \/ x.t = "boolean" /\ ~x.b
  \/ x.t = "number" /\ x.n = 0
  \/ x.t = "string" /\ x.s = <<>>

\* A function object, with the properties the program has added to it.
Fun(f) == [t |-> "function", o |-> f]

\* o.k for a value o that is neither undefined nor null: an own property
\* of an object or a function, undefined otherwise (no modelled name is a
\* built-in property of a primitive, an array or a function).
Prop(o, k) ==
  IF o.t \in {"object", "function"} /\ k \in DOMAIN o.o THEN o.o[k]
  ELSE Undefined

(***************************************************************************)
(* Characters and bytes                                                    *)
(***************************************************************************)
\* The printable ASCII characters, code 32 to 126, in code order (code 96,
\* which a TLA+ string cannot hold, has a stand-in).
AsciiPrintable ==
  << " ", "!", "\"", "#", "$", "%", "&", "'", "(", ")", "*", "+", ",", "-",
     ".", "/", "0", "1", "2", "3", "4", "5", "6", "7", "8", "9", ":", ";",
     "<", "=", ">", "?", "@", "A", "B", "C", "D", "E", "F", "G", "H", "I",
     "J", "K", "L", "M", "N", "O", "P", "Q", "R", "S", "T", "U", "V", "W",
     "X", "Y", "Z", "[", "\\", "]", "^", "_", "<backtick>", "a", "b", "c", "d", "e",
     "f", "g", "h", "i", "j", "k", "l", "m", "n", "o", "p", "q", "r", "s",
     "t", "u", "v", "w", "x", "y", "z", "{", "|", "}", "~" >>

\* A control character other than tab, newline and carriage return, and a
\* character beyond printable ASCII: what a byte outside 32..126 decodes to.
ControlChar == "<control>"
OtherChar == "<non-ascii>"

Digits == {"0", "1", "2", "3", "4", "5", "6", "7", "8", "9"}

Whitespace == {" ", "\t", "\n", "\r"}

\* The code of each printable character.
OrdTable == [c \in {AsciiPrintable[i] : i \in 1..Len(AsciiPrintable)} |->
  31 + (CHOOSE i \in 1..Len(AsciiPrintable) : AsciiPrintable[i] = c)]

Ord(c) == OrdTable[c]

Chr(b) ==
  IF b >= 32 /\ b <= 126 THEN AsciiPrintable[b - 31]
  ELSE IF b = 9 THEN "\t"
  ELSE IF b = 10 THEN "\n"
  ELSE IF b = 13 THEN "\r"
  ELSE IF b < 32 THEN ControlChar
  ELSE OtherChar

\* Buffer.from(str, 'utf8') on a string of printable ASCII.
Utf8Bytes(s) == [i \in 1..Len(s) |-> Ord(s[i])]

\* buffer.toString('utf8'): never throws; a byte that is not ASCII text
\* becomes a character no JSON token starts with.
Utf8String(bytes) == [i \in 1..Len(bytes) |-> Chr(bytes[i])]

(***************************************************************************)
(* base64 and base64url                                                    *)
(***************************************************************************)
Base64Chars ==
  << "A", "B", "C", "D", "E", "F", "G", "H", "I", "J", "K", "L", "M", "N",
     "O", "P", "Q", "R", "S", "T", "U", "V", "W", "X", "Y", "Z", "a", "b",
     "c", "d", "e", "f", "g", "h", "i", "j", "k", "l", "m", "n", "o", "p",
     "q", "r", "s", "t", "u", "v", "w", "x", "y", "z", "0", "1", "2", "3",
     "4", "5", "6", "7", "8", "9", "+", "/" >>

Base64UrlChars == [i \in 1..64 |->
  IF i = 63 THEN "-" ELSE IF i = 64 THEN "_" ELSE Base64Chars[i]]

\* The 6-bit groups of a byte sequence, three bytes to four groups, the
\* last group filled with zero bits.
Sextets(bytes) ==
  LET B(i) == IF i <= Len(bytes) THEN bytes[i] ELSE 0
  IN [j \in 1..((4 * Len(bytes) + 2) \div 3) |->
       LET base == 3 * ((j - 1) \div 4)
           r == (j - 1) % 4
       IN IF r = 0 THEN B(base + 1) \div 4
          ELSE IF r = 1 THEN (B(base + 1) % 4) * 16 + B(base + 2) \div 16
          ELSE IF r = 2 THEN (B(base + 2) % 16) * 4 + B(base + 3) \div 64
          ELSE B(base + 3) % 64]

\* buffer.toString('base64'): standard alphabet, padded with "=".
Base64Text(bytes) ==
  LET q == Sextets(bytes)
      pad == IF Len(bytes) % 3 = 1 THEN <<"=", "=">>
             ELSE IF Len(bytes) % 3 = 2 THEN <<"=">> ELSE <<>>
  IN [i \in 1..Len(q) |-> Base64Chars[q[i] + 1]] \o pad

\* buffer.toString('base64url'): URL-safe alphabet, no padding.
Base64UrlText(bytes) ==
  LET q == Sextets(bytes)
  IN [i \in 1..Len(q) |-> Base64UrlChars[q[i] + 1]]

\* The 6-bit value of each character of the standard alphabet.
Unbase64Table == [c \in {Base64Chars[i] : i \in 1..64} |->
  (CHOOSE i \in 1..64 : Base64Chars[i] = c) - 1]

\* The 6-bit value of a character of either alphabet, 64 for any other.
Unbase64(c) ==
  IF c \in DOMAIN Unbase64Table THEN Unbase64Table[c]
  ELSE IF c = "-" THEN 62
  ELSE IF c = "_" THEN 63
  ELSE 64

\* The decoder skips characters outside the alphabets and stops at "=".
LegalSextets(s) ==
  LET pads == {i \in 1..Len(s) : s[i] = "="}
      end == IF pads = {} THEN Len(s)
             ELSE (CHOOSE i \in pads : \A j \in pads : i <= j) - 1
      legal == SelectSeq(SubSeq(s, 1, end), LAMBDA c : Unbase64(c) < 64)
  IN [i \in 1..Len(legal) |-> Unbase64(legal[i])]

\* Four groups to three bytes; a trailing single group yields no byte.
SextetBytes(q) ==
  [k \in 1..((3 * Len(q)) \div 4) |->
     LET base == 4 * ((k - 1) \div 3)
         r == (k - 1) % 3
     IN IF r = 0 THEN q[base + 1] * 4 + q[base + 2] \div 16
        ELSE IF r = 1 THEN (q[base + 2] % 16) * 16 + q[base + 3] \div 4
        ELSE (q[base + 3] % 4) * 64 + q[base + 4]]

\* Buffer.from(str, 'base64url'): accepts any string, never throws.
Base64UrlBytes(s) == SextetBytes(LegalSextets(s))

(***************************************************************************)
(* JSON.stringify                                                          *)
(***************************************************************************)
\* Property names in the order the object literals of the code write them:
\* JSON.stringify emits own properties in insertion order.
KeyOrder == << "n", "b", "e", "g", "t", "p" >>

RECURSIVE NumberChars(_)
\* The decimal digits of a non-negative integer.
NumberChars(n) ==
  IF n < 10 THEN << AsciiPrintable[n + 17] >>
  ELSE NumberChars(n \div 10) \o << AsciiPrintable[(n % 10) + 17] >>

\* One character of a string inside JSON text: quote and backslash escaped.
EscapeChar(c) ==
  IF c = "\"" THEN << "\\", "\"" >>
  ELSE IF c = "\\" THEN << "\\", "\\" >>
  ELSE << c >>

RECURSIVE QuoteChars(_, _)
QuoteChars(s, i) ==
  IF i > Len(s) THEN <<>> ELSE EscapeChar(s[i]) \o QuoteChars(s, i + 1)

\* A JavaScript string as a JSON string literal.
JSONQuote(s) == << "\"" >> \o QuoteChars(s, 1) \o << "\"" >>

RECURSIVE JSONStringify(_), StringifyElements(_, _), StringifyMembers(_, _, _)
\* JSON.stringify(x) for a value built of objects, arrays, strings,
\* integers, booleans, null and undefined.  An undefined property is left
\* out of its object; an undefined array element is written null.
JSONStringify(x) ==
  IF x.t = "string" THEN JSONQuote(x.s)
  ELSE IF x.t = "number" THEN
    IF x.n < 0 THEN << "-" >> \o NumberChars(-x.n) ELSE NumberChars(x.n)
  ELSE IF x.t = "boolean" THEN
    IF x.b THEN << "t", "r", "u", "e" >> ELSE << "f", "a", "l", "s", "e" >>
  ELSE IF x.t = "array" THEN
    << "[" >> \o StringifyElements(x.a, 1) \o << "]" >>
  ELSE IF x.t = "object" THEN
    << "{" >> \o StringifyMembers(x.o, 1, TRUE) \o << "}" >>
  ELSE << "n", "u", "l", "l" >>

StringifyElements(a, i) ==
  IF i > Len(a) THEN <<>>
  ELSE (IF i > 1 THEN << "," >> ELSE <<>>)
       \o JSONStringify(a[i]) \o StringifyElements(a, i + 1)

\* The members of object f from KeyOrder[i] on; first: none written yet.
StringifyMembers(f, i, first) ==
  IF i > Len(KeyOrder) THEN <<>>
  ELSE IF KeyOrder[i] \in DOMAIN f /\ f[KeyOrder[i]].t # "undefined" THEN
    (IF first THEN <<>> ELSE << "," >>)
    \o << "\"", KeyOrder[i], "\"", ":" >>
    \o JSONStringify(f[KeyOrder[i]])
    \o StringifyMembers(f, i + 1, FALSE)
  ELSE StringifyMembers(f, i + 1, first)

(***************************************************************************)
(* JSON.parse                                                              *)
(***************************************************************************)
\* A parse step's result: whether it succeeded, the value, and the index
\* of the first character after it.
ParseOk(val, pos) == [ok |-> TRUE, val |-> val, pos |-> pos]
ParseFail == [ok |-> FALSE, val |-> Undefined, pos |-> 0]

RECURSIVE SkipWhitespace(_, _)
SkipWhitespace(s, i) ==
  IF i <= Len(s) /\ s[i] \in Whitespace THEN SkipWhitespace(s, i + 1) ELSE i

\* Whether the characters of word stand in s from index i on.
HasWord(s, i, word) ==
  /\ i + Len(word) - 1 <= Len(s)
  /\ \A j \in 1..Len(word) : s[i + j - 1] = word[j]

RECURSIVE ParseStringBody(_, _, _)
\* The body of a string literal from index i on, acc the characters read:
\* ends at the closing quote; a raw control character is a syntax error.
\* The escapes are those the modelled texts hold: \" \\ and \/.
ParseStringBody(s, i, acc) ==
  IF i > Len(s) THEN ParseFail
  ELSE IF s[i] = "\"" THEN ParseOk(Str(acc), i + 1)
  ELSE IF s[i] \in {ControlChar, "\t", "\n", "\r"} THEN ParseFail
  ELSE IF s[i] = "\\" THEN
    IF i + 1 <= Len(s) /\ s[i + 1] \in {"\"", "\\", "/"}
    THEN ParseStringBody(s, i + 2, Append(acc, s[i + 1]))
    ELSE ParseFail
  ELSE ParseStringBody(s, i + 1, Append(acc, s[i]))

RECURSIVE ParseDigits(_, _, _)
\* The digits from index i on, acc the number read so far.
ParseDigits(s, i, acc) ==
  IF i <= Len(s) /\ s[i] \in Digits
  THEN ParseDigits(s, i + 1, acc * 10 + (Ord(s[i]) - 48))
  ELSE ParseOk(Num(acc), i)

\* An integer literal at index i: no leading zero.  The modelled texts
\* hold no fraction or exponent.
ParseNumber(s, i) ==
  IF i > Len(s) \/ s[i] \notin Digits THEN ParseFail
  ELSE IF s[i] = "0" THEN
    IF i + 1 <= Len(s) /\ s[i + 1] \in Digits THEN ParseFail
    ELSE ParseOk(Num(0), i + 1)
  ELSE ParseDigits(s, i, 0)

RECURSIVE ParseValue(_, _), ParseElements(_, _, _), ParseMembers(_, _, _)
\* The JSON value that starts at index i (whitespace already skipped).
ParseValue(s, i) ==
  IF i > Len(s) THEN ParseFail
  ELSE IF s[i] = "\"" THEN ParseStringBody(s, i + 1, <<>>)
  ELSE IF s[i] = "{" THEN
    LET j == SkipWhitespace(s, i + 1)
    IN IF j <= Len(s) /\ s[j] = "}" THEN ParseOk(Obj(<<>>), j + 1)
       ELSE ParseMembers(s, j, <<>>)
  ELSE IF s[i] = "[" THEN
    LET j == SkipWhitespace(s, i + 1)
    IN IF j <= Len(s) /\ s[j] = "]" THEN ParseOk(Arr(<<>>), j + 1)
       ELSE ParseElements(s, j, <<>>)
  ELSE IF HasWord(s, i, << "t", "r", "u", "e" >>)
    THEN ParseOk(Bool(TRUE), i + 4)
  ELSE IF HasWord(s, i, << "f", "a", "l", "s", "e" >>)
    THEN ParseOk(Bool(FALSE), i + 5)
  ELSE IF HasWord(s, i, << "n", "u", "l", "l" >>) THEN ParseOk(Null, i + 4)
  ELSE IF s[i] = "-" THEN
    LET r == ParseNumber(s, i + 1)
    IN IF r.ok THEN ParseOk(Num(-r.val.n), r.pos) ELSE ParseFail
  ELSE ParseNumber(s, i)

\* The elements of an array from index i on (a value is due), acc the
\* elements read, up to and including the closing bracket.
ParseElements(s, i, acc) ==
  LET r == ParseValue(s, i)
      j == SkipWhitespace(s, r.pos)
  IN IF ~r.ok \/ j > Len(s) THEN ParseFail
     ELSE IF s[j] = "]" THEN ParseOk(Arr(Append(acc, r.val)), j + 1)
     ELSE IF s[j] = ","
       THEN ParseElements(s, SkipWhitespace(s, j + 1), Append(acc, r.val))
     ELSE ParseFail

RECURSIVE KeyName(_, _)
\* A property name as one string.
KeyName(chars, i) ==
  IF i > Len(chars) THEN "" ELSE chars[i] \o KeyName(chars, i + 1)

\* The members of an object from index i on (a name is due), acc the
\* properties read, up to and including the closing brace.  A repeated
\* name keeps its last value.
ParseMembers(s, i, acc) ==
  IF i > Len(s) \/ s[i] # "\"" THEN ParseFail
  ELSE
    LET k == ParseStringBody(s, i + 1, <<>>)
        c == SkipWhitespace(s, k.pos)
        r == ParseValue(s, SkipWhitespace(s, c + 1))
        j == SkipWhitespace(s, r.pos)
        name == KeyName(k.val.s, 1)
        more == [x \in (DOMAIN acc) \cup {name} |->
                   IF x = name THEN r.val ELSE acc[x]]
    IN IF ~k.ok \/ c > Len(s) THEN ParseFail
       ELSE IF s[c] # ":" THEN ParseFail
       ELSE IF ~r.ok \/ j > Len(s) THEN ParseFail
       ELSE IF s[j] = "}" THEN ParseOk(Obj(more), j + 1)
       ELSE IF s[j] = "," THEN ParseMembers(s, SkipWhitespace(s, j + 1), more)
       ELSE ParseFail

\* JSON.parse(text): the value, or the SyntaxError it throws.
JSONParse(s) ==
  LET r == ParseValue(s, SkipWhitespace(s, 1))
  IN IF r.ok /\ SkipWhitespace(s, r.pos) = Len(s) + 1 THEN r.val
     ELSE Throw("SyntaxError")

(***************************************************************************)
(* Dates                                                                   *)
(***************************************************************************)
\* n as two, or as three, decimal digits.
TwoDigits(n) == << AsciiPrintable[((n \div 10) % 10) + 17],
                   AsciiPrintable[(n % 10) + 17] >>

ThreeDigits(n) == << AsciiPrintable[((n \div 100) % 10) + 17] >> \o TwoDigits(n)

\* new Date(ms).toISOString() for a time ms of the first day of the epoch,
\* which is where the model's clock stays.
IsoString(ms) ==
  Str(<< "1", "9", "7", "0", "-", "0", "1", "-", "0", "1", "T" >>
      \o TwoDigits(ms \div 3600000) \o << ":" >>
      \o TwoDigits((ms \div 60000) % 60) \o << ":" >>
      \o TwoDigits((ms \div 1000) % 60) \o << "." >>
      \o ThreeDigits(ms % 1000) \o << "Z" >>)

\* new Date(x).toISOString(): the time value of x is x for a number, 0 for
\* null, 0 or 1 for a boolean and NaN for undefined, which makes
\* toISOString throw a RangeError.  The modelled payloads carry no text,
\* array or object as a time: those are taken as invalid dates too.
DateToISOString(x) ==
  IF x.t = "number" THEN IsoString(x.n)
  ELSE IF x.t = "null" THEN IsoString(0)
  ELSE IF x.t = "boolean" THEN IsoString(IF x.b THEN 1 ELSE 0)
  ELSE Throw("RangeError")

(***************************************************************************)
(* The token codec                                                         *)
(***************************************************************************)
\* array.map(c => ({ [k1]: c[p1], [k2]: c[p2] })): a TypeError when the
\* receiver is not an array or an element is undefined or null.
MapPairs(a, p1, p2, k1, k2) ==
  IF a.t # "array" THEN Throw("TypeError")
  ELSE IF \E i \in 1..Len(a.a) : a.a[i].t \in {"undefined", "null"}
    THEN Throw("TypeError")
  ELSE Arr([i \in 1..Len(a.a) |->
         Obj([k \in {k1, k2} |->
           IF k = k1 THEN Prop(a.a[i], p1) ELSE Prop(a.a[i], p2)])])

\* encodeUserToken(user), called when Date.now() is at.
encodeUserToken(user, at) ==
  LET e == MapPairs(Prop(user, "emergencyContacts"), "name", "phone", "n", "p")
      g == MapPairs(Prop(user, "governmentHelplines"), "name", "number", "n", "p")
      data == Obj([k \in {"n", "b", "e", "g", "t"} |->
                IF k = "n" THEN Prop(user, "fullName")
                ELSE IF k = "b" THEN Prop(user, "bloodGroup")
                ELSE IF k = "e" THEN e
                ELSE IF k = "g" THEN g
                ELSE Num(at)])
  IN IF IsThrow(e) THEN e
     ELSE IF IsThrow(g) THEN g
     ELSE Str(Base64UrlText(Utf8Bytes(JSONStringify(data))))

\* The return statement of decodeUserToken on the parsed payload `data`
\* (or the SyntaxError of JSON.parse): the profile, or what it throws.
DecodeData(data) ==
  LET e == MapPairs(Prop(data, "e"), "n", "p", "name", "phone")
      g == MapPairs(Prop(data, "g"), "n", "p", "name", "number")
      createdAt == DateToISOString(Prop(data, "t"))
  IN IF IsThrow(data) THEN data
     ELSE IF data.t = "null" THEN Throw("TypeError")
     ELSE IF IsThrow(e) THEN e
     ELSE IF IsThrow(g) THEN g
     ELSE IF IsThrow(createdAt) THEN createdAt
     ELSE Obj([k \in {"fullName", "bloodGroup", "emergencyContacts",
                      "governmentHelplines", "createdAt"} |->
            IF k = "fullName" THEN Prop(data, "n")
            ELSE IF k = "bloodGroup" THEN Prop(data, "b")
            ELSE IF k = "emergencyContacts" THEN e
            ELSE IF k = "governmentHelplines" THEN g
            ELSE createdAt])

\* The try block of decodeUserToken: the profile, or what it throws.
DecodeTry(token) == DecodeData(JSONParse(Utf8String(Base64UrlBytes(token.s))))

\* A decodeUserToken without the catch clause (a fault to test C2 against).
Uncaught(r) == r

\* The catch clause: every exception of the try block becomes null.
Caught(r) == IF IsThrow(r) THEN Null ELSE r

\* decodeUserToken(token)
decodeUserToken(token) == Caught(DecodeTry(token))

(***************************************************************************)
(* String helpers of the handlers                                          *)
(***************************************************************************)
\* The characters of s without leading and trailing whitespace.
TrimChars(s) ==
  LET solid == {i \in 1..Len(s) : s[i] \notin Whitespace}
  IN IF solid = {} THEN <<>>
     ELSE SubSeq(s, CHOOSE i \in solid : \A j \in solid : i <= j,
                    CHOOSE i \in solid : \A j \in solid : i >= j)

\* x.trim(): a TypeError unless x is a string.
trim(x) == IF x.t = "string" THEN Str(TrimChars(x.s)) ELSE Throw("TypeError")

UpperChar(c) ==
  IF c \in DOMAIN OrdTable /\ Ord(c) >= 97 /\ Ord(c) <= 122
  THEN AsciiPrintable[Ord(c) - 32 - 31] ELSE c

\* x.toUpperCase() for a string x.
toUpperCase(x) == Str([i \in 1..Len(x.s) |-> UpperChar(x.s[i])])

\* isValidIndianPhone(phone): phone && phone.trim().length > 0.  A falsy
\* phone is returned as it is; a truthy value that is no string throws.
isValidIndianPhone(phone) ==
  IF Falsy(phone) THEN phone
  ELSE IF phone.t # "string" THEN Throw("TypeError")
  ELSE Bool(Len(TrimChars(phone.s)) > 0)

\* A cleanPhoneNumber that strips nothing (a fault to test C7 against).
KeepPhone(phone) == phone

\* cleanPhoneNumber(phone): phone.replace(/\D/g, '').
cleanPhoneNumber(phone) ==
  IF phone.t # "string" THEN Throw("TypeError")
  ELSE Str(SelectSeq(phone.s, LAMBDA c : c \in Digits))

\* An encodeBase64 that returns its argument (a fault to test C8 against).
PassThrough(str) == str

\* encodeBase64(str): Buffer.from(str, 'utf8').toString('base64').
\* Buffer.from throws a TypeError for undefined, null, a number, a boolean
\* and a plain object; an array is taken as a list of bytes.
encodeBase64(str) ==
  IF str.t = "string" THEN Str(Base64Text(Utf8Bytes(str.s)))
  ELSE IF str.t = "array" THEN
    Str(Base64Text([i \in 1..Len(str.a) |->
      IF str.a[i].t = "number" THEN str.a[i].n % 256 ELSE 0]))
  ELSE Throw("TypeError")

(***************************************************************************)
(* POST /api/register                                                      *)
(***************************************************************************)
\* The English part of each message; a message is kept whole, as the one
\* element of its string.
MissingFieldsError == Str(<< "Missing required fields." >>)
NoContactError == Str(<< "At least one emergency contact is required." >>)
NoHelplineError == Str(<< "At least one government helpline is required." >>)
BadContactError == Str(<< "Invalid emergency contact information." >>)
BadHelplineError == Str(<< "Invalid government helpline information." >>)
InternalServerError == Str(<< "Internal server error" >>)

\* What a handler answers: the status, the body, and for a registration
\* the token and the user record it saves (else undefined).
Response(status, body) ==
  [status |-> status, body |-> body, token |-> Undefined, user |-> Undefined]

ErrorResponse(status, msg) == Response(status, Obj([error |-> msg]))

\* An exception that leaves a handler reaches the error handler of the app.
FaultResponse == Response(500, InternalServerError)

\* !x || !Array.isArray(x) || x.length === 0
NotNonEmptyArray(x) == Falsy(x) \/ x.t # "array" \/ Len(x.a) = 0

\* One turn of a validation loop on element x, phoneKey the name of its
\* phone property: "ok", "invalid" (the loop answers 400) or "throw".
CheckEntry(x, phoneKey) ==
  IF x.t \in {"undefined", "null"} THEN "throw"
  ELSE IF Falsy(Prop(x, "name")) THEN "invalid"
  ELSE IF Falsy(Prop(x, phoneKey)) THEN "invalid"
  ELSE LET valid == isValidIndianPhone(Prop(x, phoneKey))
       IN IF IsThrow(valid) THEN "throw"
          ELSE IF Falsy(valid) THEN "invalid"
          ELSE "ok"

\* A validation loop over array a: the outcome of the first element that
\* is not "ok", or "ok".
CheckEntries(a, phoneKey) ==
  LET bad == {i \in 1..Len(a.a) : CheckEntry(a.a[i], phoneKey) # "ok"}
  IN IF bad = {} THEN "ok"
     ELSE CheckEntry(a.a[CHOOSE i \in bad : \A j \in bad : i <= j], phoneKey)

\* array.map(x => ({ name: x.name.trim(), [phoneKey]: cleanPhoneNumber(x[phoneKey]) })).
NormalizeEntries(a, phoneKey) ==
  LET names == [i \in 1..Len(a.a) |-> trim(Prop(a.a[i], "name"))]
      phones == [i \in 1..Len(a.a) |-> cleanPhoneNumber(Prop(a.a[i], phoneKey))]
  IN IF \E i \in 1..Len(a.a) : IsThrow(names[i]) \/ IsThrow(phones[i])
     THEN Throw("TypeError")
     ELSE Arr([i \in 1..Len(a.a) |->
            Obj([k \in {"name", phoneKey} |->
              IF k = "name" THEN names[i] ELSE phones[i]])])

\* The user record of lines 267-279, built when new Date() is at.
BuildUser(body, at) ==
  LET fullName == trim(Prop(body, "fullName"))
      bloodGroup == trim(Prop(body, "bloodGroup"))
      contacts == NormalizeEntries(Prop(body, "emergencyContacts"), "phone")
      helplines == NormalizeEntries(Prop(body, "governmentHelplines"), "number")
  IN IF IsThrow(fullName) \/ IsThrow(bloodGroup) \/ IsThrow(contacts)
        \/ IsThrow(helplines)
     THEN Throw("TypeError")
     ELSE Obj([k \in {"fullName", "bloodGroup", "emergencyContacts",
                      "governmentHelplines", "createdAt"} |->
            IF k = "fullName" THEN fullName
            ELSE IF k = "bloodGroup" THEN toUpperCase(bloodGroup)
            ELSE IF k = "emergencyContacts" THEN contacts
            ELSE IF k = "governmentHelplines" THEN helplines
            ELSE IsoString(at)])

\* "/scan/" and "/api/qr/" followed by the token.
ScanUrl(token) == Str(<< "/", "s", "c", "a", "n", "/" >> \o token.s)
QrUrl(token) == Str(<< "/", "a", "p", "i", "/", "q", "r", "/" >> \o token.s)

\* An Issue that saves the record under the user's name rather than under
\* the token it answers with (a fault to test C24 against).
IssueUnderName(user, token) ==
  [status |-> 200,
   body |-> Obj([k \in {"token", "publicUrl", "qrImageUrl"} |->
              IF k = "token" THEN token
              ELSE IF k = "publicUrl" THEN ScanUrl(token)
              ELSE QrUrl(token)]),
   token |-> Prop(user, "fullName"),
   user |-> user]

\* The successful answer: the token and the two URLs built on it.
Issue(user, token) ==
  [status |-> 200,
   body |-> Obj([k \in {"token", "publicUrl", "qrImageUrl"} |->
              IF k = "token" THEN token
              ELSE IF k = "publicUrl" THEN ScanUrl(token)
              ELSE QrUrl(token)]),
   token |-> token,
   user |-> user]

\* Lines 267-295 on a body that passed the checks: the record, its token
\* and the answer, or the error handler when building the record threw.
Accept(user, encodedAt) ==
  IF IsThrow(user) THEN FaultResponse
  ELSE Issue(user, encodeUserToken(user, encodedAt))

\* The outcome of a validation loop as an answer, `next` the answer of the
\* rest of the handler.
LoopAnswer(outcome, msg, next) ==
  IF outcome = "throw" THEN FaultResponse
  ELSE IF outcome = "invalid" THEN ErrorResponse(400, msg)
  ELSE next

\* The handler with the checks of lines 235 and 242 in the other order (a fault
\* to test C5 against).
HelplinesFirst(body, createdAt, encodedAt) ==
  IF Falsy(Prop(body, "fullName")) \/ Falsy(Prop(body, "bloodGroup"))
    THEN ErrorResponse(400, MissingFieldsError)
  ELSE IF NotNonEmptyArray(Prop(body, "governmentHelplines"))
    THEN ErrorResponse(400, NoHelplineError)
  ELSE IF NotNonEmptyArray(Prop(body, "emergencyContacts"))
    THEN ErrorResponse(400, NoContactError)
  ELSE LoopAnswer(CheckEntries(Prop(body, "emergencyContacts"), "phone"),
         BadContactError,
         LoopAnswer(CheckEntries(Prop(body, "governmentHelplines"), "number"),
           BadHelplineError, Accept(BuildUser(body, createdAt), encodedAt)))

\* The handler on request body `body`: new Date() of line 278 reads
\* createdAt, Date.now() of line 128 reads encodedAt.
RegisterHandler(body, createdAt, encodedAt) ==
  LET contacts == Prop(body, "emergencyContacts")
      helplines == Prop(body, "governmentHelplines")
  IN IF Falsy(Prop(body, "fullName")) \/ Falsy(Prop(body, "bloodGroup"))
       THEN ErrorResponse(400, MissingFieldsError)
     ELSE IF NotNonEmptyArray(contacts) THEN ErrorResponse(400, NoContactError)
     ELSE IF NotNonEmptyArray(helplines) THEN ErrorResponse(400, NoHelplineError)
     ELSE LoopAnswer(CheckEntries(contacts, "phone"), BadContactError,
            LoopAnswer(CheckEntries(helplines, "number"), BadHelplineError,
              Accept(BuildUser(body, createdAt), encodedAt)))

(***************************************************************************)
(* The auxiliary store (database.js)                                       *)
(***************************************************************************)
\* {} : a collection without keys.
EmptyMap == [k \in {} |-> Undefined]

\* coll[key] = value
Put(coll, key, value) ==
  [k \in DOMAIN coll \cup {key} |-> IF k = key THEN value ELSE coll[k]]

\* delete coll[key]
Remove(coll, key) == [k \in DOMAIN coll \ {key} |-> coll[k]]

\* The one name that a collection, being a plain object, inherits and that
\* the model follows: "constructor", which is the built-in Object function.
ConstructorKey == << "c", "o", "n", "s", "t", "r", "u", "c", "t", "o", "r" >>

\* The built-in Object function with the properties this process gave it.
ObjectFunction == Fun(inherited)

\* coll[key] of JavaScript: the own property, else the inherited one, else
\* undefined.
Index(coll, key) ==
  IF key \in DOMAIN coll THEN coll[key]
  ELSE IF key = ConstructorKey THEN ObjectFunction
  ELSE Undefined

\* JSON.parse(JSON.stringify(x)) on the structure of x: a property that is
\* undefined or a function is dropped, such an array element becomes null.
RECURSIVE JSONClone(_)
JSONClone(x) ==
  IF x.t = "array" THEN
    Arr([i \in 1..Len(x.a) |->
      IF x.a[i].t \in {"undefined", "function"} THEN Null
      ELSE JSONClone(x.a[i])])
  ELSE IF x.t = "object" THEN
    Obj([k \in {j \in DOMAIN x.o : x.o[j].t \notin {"undefined", "function"}} |->
      JSONClone(x.o[k])])
  ELSE x

\* What JSON.stringify(coll, null, 2) writes of a collection, as the
\* collection that JSON.parse reads back from the file.
FileOf(coll) == [k \in DOMAIN coll |-> JSONClone(coll[k])]

\* getUser(token): users[token] || null
getUser(token) ==
  LET user == Index(users, token) IN IF Falsy(user) THEN Null ELSE user

\* getPhotoByViewToken(viewToken): photos[viewToken] || null
getPhotoByViewToken(viewToken) ==
  LET photo == Index(photos, viewToken) IN IF Falsy(photo) THEN Null ELSE photo

\* The outcomes of fs.writeFileSync in a save function: in a serverless
\* process the function returns before it; elsewhere the write succeeds or
\* throws into the catch clause.
WriteOutcomes == IF serverless THEN {FALSE} ELSE BOOLEAN

\* A save function that writes the collection as it was before the
\* operation changed it (a fault to test C19 against).
WriteBehind(name, coll, written) ==
  IF written
  THEN [disk EXCEPT ![name] = FileOf(IF name = "users" THEN users
                                      ELSE IF name = "photos" THEN photos
                                      ELSE accidentLogs)]
  ELSE disk

\* The files after saveUsers() / saveAccidentLogs() / savePhotos() on the
\* collection coll of file `name`, the write having succeeded or not.
Saved(name, coll, written) ==
  IF written THEN [disk EXCEPT ![name] = FileOf(coll)] ELSE disk

\* A load function that reads the file in every deployment (a fault to
\* test C20 against).
ReadAlways(name, empty) == disk[name]

\* loadUsers / loadAccidentLogs / loadPhotos at module load: the file's
\* collection, or the empty one in a serverless process.
Loaded(name, empty) == IF serverless THEN empty ELSE disk[name]

\* A saveUser that gives the record up when the file could not be written
\* (a fault to test C21 against).
SaveOrAbort(token, user, written) ==
  /\ users' = IF written THEN Put(users, token, user) ELSE users
  /\ disk' = Saved("users", users', written)

\* saveUser(token, user): users[token] = user, then saveUsers(), whose
\* write succeeds or not.
saveUser(token, user, written) ==
  /\ users' = Put(users, token, user)
  /\ disk' = Saved("users", users', written)

(***************************************************************************)
(* GET /api/users/:token/public                                            *)
(***************************************************************************)
UserNotFoundError == Str(<< "User not found" >>)

\* The object passed to res.json: a TypeError when emergencyContacts has no
\* map, when an element of it is undefined or null, or when encodeBase64
\* throws on its phone.
PublicView(user) ==
  LET contacts == Prop(user, "emergencyContacts")
      encoded == [i \in 1..Len(contacts.a) |->
                   IF contacts.a[i].t \in {"undefined", "null"}
                   THEN Throw("TypeError")
                   ELSE encodeBase64(Prop(contacts.a[i], "phone"))]
  IN IF contacts.t # "array" THEN Throw("TypeError")
     ELSE IF \E i \in 1..Len(contacts.a) : IsThrow(encoded[i])
       THEN Throw("TypeError")
     ELSE Obj([k \in {"fullName", "bloodGroup", "emergencyContacts",
                      "governmentHelplines"} |->
            IF k = "fullName" THEN Prop(user, "fullName")
            ELSE IF k = "bloodGroup" THEN Prop(user, "bloodGroup")
            ELSE IF k = "governmentHelplines" THEN Prop(user, "governmentHelplines")
            ELSE Arr([i \in 1..Len(contacts.a) |->
                   Obj([j \in {"name", "phoneEncoded"} |->
                     IF j = "name" THEN Prop(contacts.a[i], "name")
                     ELSE encoded[i]])])])

\* if (!user) user = db.getUser(token), on the decoded token: the user
\* the handler works on, and whether the store was consulted.
OrStored(decoded, token) ==
  IF Falsy(decoded)
  THEN [user |-> getUser(token.s), consulted |-> TRUE]
  ELSE [user |-> decoded, consulted |-> FALSE]

\* A lookup that knows the store only (a fault to test C3 against).
StoreOnlyLookup(token) == [user |-> getUser(token.s), consulted |-> TRUE]

LookupUser(token) == OrStored(decodeUserToken(token), token)

\* res.json(view), or the error handler when building the view threw.
SendView(view) ==
  IF IsThrow(view) THEN FaultResponse ELSE Response(200, JSONClone(view))

\* An answer together with the user it was built from and whether the
\* store was consulted.
Answer(found, answer) ==
  [status |-> answer.status, body |-> answer.body,
   user |-> found.user, consulted |-> found.consulted]

\* The rest of the handler once the user is looked up.
ResolveFound(found) ==
  Answer(found, IF Falsy(found.user) THEN ErrorResponse(404, UserNotFoundError)
                ELSE SendView(PublicView(found.user)))

\* The handler on the token of the path: the response, the user it was
\* built from and whether the store was consulted.
ResolveHandler(token) == ResolveFound(LookupUser(token))

(***************************************************************************)
(* Bounds and inputs                                                       *)
(***************************************************************************)
\* The clock runs from 0 to MaxClock milliseconds.
MaxClock == 1

\* At most MaxIssued tokens are issued.
MaxIssued == 1

\* Request data as express.json() parses it: an absent property is written
\* as undefined and dropped.
Contact(name, phone) == JSONClone(Obj([name |-> name, phone |-> phone]))
Helpline(name, number) == JSONClone(Obj([name |-> name, number |-> number]))
Body(fullName, bloodGroup, emergencyContacts, governmentHelplines) ==
  JSONClone(Obj([fullName |-> fullName, bloodGroup |-> bloodGroup,
                 emergencyContacts |-> emergencyContacts,
                 governmentHelplines |-> governmentHelplines]))

Asha == Str(<< "A", "s", "h", "a" >>)
PaddedAsha == Str(<< " ", " ", "A", "s", "h", "a", " " >>)
Ravi == Str(<< "R", "a", "v", "i" >>)
Blank == Str(<< " " >>)
Empty == Str(<<>>)
OPositive == Str(<< "O", "+" >>)
PaddedOPositive == Str(<< " ", "o", "+", " " >>)
AbNegative == Str(<< "a", "b", "-" >>)

Mom == Contact(Str(<< "M", "o", "m" >>), Str(<< "9", "8", "7", "6", "5", "4", "3", "2", "1", "0" >>))
PaddedMom == Contact(Str(<< " ", "M", "o", "m", " " >>), Str(<< "+", "9", "1", " ", "9", "8", "-", "7", "6" >>))
Dad == Contact(Str(<< "D", "a", "d" >>), Str(<< "1", "2" >>))
Bro == Contact(Str(<< "B", "r", "o" >>), Str(<< "3", "4" >>))
NoDigits == Contact(Str(<< "S", "i", "s" >>), Str(<< "n", "/", "a" >>))
BlankName == Contact(Blank, Str(<< "5", "6" >>))
NoPhone == Contact(Str(<< "M", "o", "m" >>), Undefined)
BlankPhone == Contact(Str(<< "M", "o", "m" >>), Blank)
NoName == Contact(Undefined, Str(<< "1", "2" >>))
NumberPhone == Contact(Str(<< "M", "o", "m" >>), Num(12))

Police == Helpline(Str(<< "P", "o", "l", "i", "c", "e" >>), Str(<< "1", "0", "0" >>))
PaddedPolice == Helpline(Str(<< "P", "o", "l", "i", "c", "e", " " >>), Str(<< "1", "-", "0", "-", "0" >>))
Fire == Helpline(Str(<< "F", "i", "r", "e" >>), Str(<< "1", "0", "1" >>))
NoNumber == Helpline(Str(<< "P", "o", "l", "i", "c", "e" >>), Undefined)
EmptyName == Helpline(Empty, Str(<< "1", "0", "0" >>))

OneContact == Arr(<< Mom >>)
OneHelpline == Arr(<< Police >>)
None == Arr(<<>>)

\* Bodies that pass every check of the handler.
AcceptedBodies ==
  { Body(PaddedAsha, PaddedOPositive, Arr(<< PaddedMom >>), Arr(<< PaddedPolice >>)),
    Body(Ravi, AbNegative, Arr(<< Dad, Bro >>), Arr(<< Police, Fire >>)),
    Body(Asha, OPositive, Arr(<< Bro, NoDigits >>), OneHelpline),
    Body(Asha, OPositive, Arr(<< BlankName >>), OneHelpline),
    Body(Blank, OPositive, OneContact, OneHelpline),
    Body(Asha, Blank, OneContact, OneHelpline) }

\* Bodies that fail one check.
SingleFailureBodies ==
  { Body(Undefined, OPositive, OneContact, OneHelpline),
    Body(Empty, OPositive, OneContact, OneHelpline),
    Body(Asha, Undefined, OneContact, OneHelpline),
    Body(Asha, Empty, OneContact, OneHelpline),
    Body(Asha, OPositive, Undefined, OneHelpline),
    Body(Asha, OPositive, None, OneHelpline),
    Body(Asha, OPositive, Str(<< "M", "o", "m" >>), OneHelpline),
    Body(Asha, OPositive, OneContact, Undefined),
    Body(Asha, OPositive, OneContact, None),
    Body(Asha, OPositive, Arr(<< NoPhone >>), OneHelpline),
    Body(Asha, OPositive, Arr(<< BlankPhone >>), OneHelpline),
    Body(Asha, OPositive, Arr(<< NoName >>), OneHelpline),
    Body(Asha, OPositive, Arr(<< Mom, NoPhone >>), OneHelpline),
    Body(Asha, OPositive, OneContact, Arr(<< NoNumber >>)),
    Body(Asha, OPositive, OneContact, Arr(<< EmptyName >>)),
    Body(Asha, OPositive, OneContact, Arr(<< Police, NoNumber >>)) }

\* Bodies that fail more than one check.
MultipleFailureBodies ==
  { Body(Undefined, Undefined, Undefined, Undefined),
    Body(Undefined, OPositive, None, OneHelpline),
    Body(Blank, OPositive, None, OneHelpline),
    Body(Asha, OPositive, None, None),
    Body(Asha, OPositive, Arr(<< NoPhone >>), None),
    Body(Asha, OPositive, Arr(<< NoPhone >>), Arr(<< NoNumber >>)),
    Body(Asha, Empty, Arr(<< NoPhone >>), Arr(<< NoNumber >>)) }

\* Bodies on which a step of the handler throws.
FaultingBodies ==
  { Body(Asha, OPositive, Arr(<< Null >>), OneHelpline),
    Body(Asha, OPositive, Arr(<< NumberPhone >>), OneHelpline),
    Body(Num(5), OPositive, OneContact, OneHelpline),
    Body(Asha, OPositive, OneContact, Arr(<< Null >>)) }

RegisterBodies ==
  AcceptedBodies \cup SingleFailureBodies \cup MultipleFailureBodies
    \cup FaultingBodies

\* A token of the earlier scheme, 32 hexadecimal characters, whose record
\* is in users.json, and one that is in no store.
LegacyToken == [i \in 1..32 |-> IF i % 2 = 1 THEN "a" ELSE "1"]
UnknownLegacyToken == [i \in 1..32 |-> IF i % 2 = 1 THEN "f" ELSE "0"]

LegacyUser ==
  Obj([fullName |-> Ravi, bloodGroup |-> OPositive,
       emergencyContacts |-> Arr(<< Mom, Dad >>),
       governmentHelplines |-> Arr(<< Police >>),
       createdAt |-> IsoString(0)])

\* The base64url text of a payload, as a client can compute it.
TokenOfText(chars) == Base64UrlText(Utf8Bytes(chars))

\* Tokens that no Register issued: one whose payload has every field, one
\* whose contact has no phone, one whose phone is a number.
ForgedToken ==
  TokenOfText(<< "{", "\"", "n", "\"", ":", "\"", "E", "v", "e", "\"", ",", "\"", "b", "\"", ":", "\"", "A", "+", "\"", ",", "\"", "e", "\"", ":", "[", "{", "\"", "n", "\"", ":", "\"", "M", "o", "m", "\"", ",", "\"", "p", "\"", ":", "\"", "5", "5", "\"", "}", "]", ",", "\"", "g", "\"", ":", "[", "]", ",", "\"", "t", "\"", ":", "0", "}" >>)
NoPhoneToken == TokenOfText(<< "{", "\"", "n", "\"", ":", "\"", "E", "v", "e", "\"", ",", "\"", "b", "\"", ":", "\"", "A", "+", "\"", ",", "\"", "e", "\"", ":", "[", "{", "\"", "n", "\"", ":", "\"", "M", "o", "m", "\"", "}", "]", ",", "\"", "g", "\"", ":", "[", "]", ",", "\"", "t", "\"", ":", "0", "}" >>)

HandTokens ==
  { LegacyToken, UnknownLegacyToken, ConstructorKey, ForgedToken, NoPhoneToken }

(***************************************************************************)
(* States and steps                                                        *)
(***************************************************************************)
\* A request and its response.  token and user: what a registration issued
\* and saved, or the user a lookup found; consulted: whether db.getUser
\* was called; before and after: the record the store held under the
\* request's key (for a request on the accident log: the log) when the
\* request came and when it was answered; written: whether the request
\* wrote a file of the store; data: the body of a request whose arg is a
\* path parameter.
Reply(op, arg, status, body) ==
  [op |-> op, arg |-> arg, status |-> status, body |-> body,
   token |-> Undefined, user |-> Undefined, consulted |-> FALSE,
   before |-> Undefined, after |-> Undefined, written |-> FALSE,
   data |-> Undefined]

Idle == Reply("none", Undefined, 0, Undefined)

CodecIdle == [op |-> "none", in |-> Undefined, token |-> Undefined,
              out |-> Undefined]

\* No call of the Netlify function is in flight.  Of a call: the token of
\* its path and the route, the variables statusCode, headers['Content-Type']
\* and responseData of the handler's closure, whether the app still awaits
\* QRCode.toBuffer, and the handler's result.
NoInvocation ==
  [pc |-> "none", route |-> "none", token |-> Undefined, statusCode |-> 200,
   contentType |-> Undefined, responseData |-> Undefined, pending |-> FALSE,
   result |-> Undefined]

\* The files the first process is started on, in either deployment: a
\* users.json with one record of the earlier scheme.
InitialDisk ==
  [users |-> Put(EmptyMap, LegacyToken, LegacyUser),
   accidentLogs |-> <<>>,
   photos |-> EmptyMap]

\* The state after database.js and server.js are loaded.
Init ==
  /\ serverless \in BOOLEAN
  /\ now = 0
  /\ disk = InitialDisk
  /\ users = Loaded("users", EmptyMap)
  /\ accidentLogs = Loaded("accidentLogs", <<>>)
  /\ photos = Loaded("photos", EmptyMap)
  /\ inherited = EmptyMap
  /\ issued = EmptyMap
  /\ served = EmptyMap
  /\ resp = Idle
  /\ codec = CodecIdle
  /\ invocation = NoInvocation

\* Time passes.
Tick ==
  /\ now < MaxClock
  /\ now' = now + 1
  /\ UNCHANGED <<serverless, users, accidentLogs, photos, inherited, disk,
                 issued, served, resp, codec, invocation>>

\* POST /api/register with body `body`; the clock may advance between the
\* new Date() of the record and the Date.now() of the token.
Register(body) ==
  /\ Cardinality(DOMAIN issued) < MaxIssued
  /\ \E d \in 0..1 :
       /\ now + d <= MaxClock
       /\ now' = now + d
       /\ \E r \in {RegisterHandler(body, now, now + d)} :
             IF r.status = 200
             THEN \E written \in WriteOutcomes :
                    /\ saveUser(r.token.s, r.user, written)
                    /\ issued' = Put(issued, r.token.s, body)
                    /\ resp' = [Reply("register", body, r.status, r.body)
                                  EXCEPT !.token = r.token, !.user = r.user,
                                         !.written = written]
             ELSE /\ resp' = Reply("register", body, r.status, r.body)
                  /\ UNCHANGED <<users, disk, issued>>
  /\ UNCHANGED <<serverless, accidentLogs, photos, inherited, served, codec, invocation>>

\* GET /api/users/:token/public
Resolve(token) ==
  /\ \E r \in {ResolveHandler(Str(token))} :
       resp' = [Reply("resolve", Str(token), r.status, r.body)
                   EXCEPT !.user = r.user, !.consulted = r.consulted,
                          !.before = IF token \in DOMAIN users
                                     THEN users[token] ELSE Undefined]
  /\ UNCHANGED <<serverless, now, users, accidentLogs, photos, inherited,
                 disk, issued, served, codec, invocation>>

\* deleteUser(token) of database.js; the body of the reply is its result.
DeleteUser(token) ==
  /\ IF ~Falsy(Index(users, token))
     THEN \E written \in WriteOutcomes :
            /\ users' = Remove(users, token)
            /\ disk' = Saved("users", users', written)
            /\ resp' = [Reply("deleteUser", Str(token), 0, Bool(TRUE))
                          EXCEPT !.written = written]
     ELSE /\ resp' = Reply("deleteUser", Str(token), 0, Bool(FALSE))
          /\ UNCHANGED <<users, disk>>
  /\ UNCHANGED <<serverless, now, accidentLogs, photos, inherited, issued,
                 served, codec, invocation>>

\* The process ends and a new one loads the modules: memory is what the
\* files hold, the built-in objects are fresh.
Restart ==
  /\ users' = Loaded("users", EmptyMap)
  /\ accidentLogs' = Loaded("accidentLogs", <<>>)
  /\ photos' = Loaded("photos", EmptyMap)
  /\ inherited' = EmptyMap
  /\ served' = EmptyMap
  /\ resp' = Reply("restart", Undefined, 0, Undefined)
  /\ invocation' = NoInvocation
  /\ UNCHANGED <<serverless, now, disk, issued, codec>>

\* The tokens a client asks about: issued ones, keys of the store and
\* hand-made ones.
KnownTokens == DOMAIN issued \cup DOMAIN users \cup HandTokens

Next ==
  \/ Tick
  \/ \E body \in RegisterBodies : Register(body)
  \/ \E token \in KnownTokens : Resolve(token)
  \/ \E token \in KnownTokens : DeleteUser(token)
  \/ Restart

Spec == Init /\ [][Next]_vars

(***************************************************************************)
(* The codec called directly                                               *)
(***************************************************************************)
\* Profiles as the specification has them: text fields, one or two
\* contacts and helplines in a given order, a creation time.
ProfileNames == { Asha, Str(<< "A", " ", "\"", "b", "\"", " ", "\\", "c" >>) }
ProfileBloodGroups == { OPositive, Str(<< "A", "B", "-" >>) }
ProfileContacts == { << Mom >>, << Dad, Bro >>, << Bro, Dad >> }
ProfileHelplines == { << Police >>, << Police, Fire >> }

Profile(fullName, bloodGroup, contacts, helplines, createdAt) ==
  Obj([fullName |-> fullName, bloodGroup |-> bloodGroup,
       emergencyContacts |-> Arr(contacts),
       governmentHelplines |-> Arr(helplines),
       createdAt |-> IsoString(createdAt)])

\* The profiles that exist when the clock reads `at`.
Profiles(at) ==
  { Profile(n, b, e, g, c) :
      n \in ProfileNames, b \in ProfileBloodGroups, e \in ProfileContacts,
      g \in ProfileHelplines, c \in 0..at }

\* Tokens of payloads that are JSON objects without one of the subfields:
\* without n, b, e, g or t, with a contact without n, and with no contact.
NoNameToken ==
  TokenOfText(<< "{", "\"", "b", "\"", ":", "\"", "A", "+", "\"", ",", "\"", "e", "\"", ":", "[", "{", "\"", "n", "\"", ":", "\"", "M", "o", "m", "\"", ",", "\"", "p", "\"", ":", "\"", "5", "5", "\"", "}", "]", ",", "\"", "g", "\"", ":", "[", "]", ",", "\"", "t", "\"", ":", "0", "}" >>)
NoBloodGroupToken ==
  TokenOfText(<< "{", "\"", "n", "\"", ":", "\"", "E", "v", "e", "\"", ",", "\"", "e", "\"", ":", "[", "{", "\"", "n", "\"", ":", "\"", "M", "o", "m", "\"", ",", "\"", "p", "\"", ":", "\"", "5", "5", "\"", "}", "]", ",", "\"", "g", "\"", ":", "[", "]", ",", "\"", "t", "\"", ":", "0", "}" >>)
NoContactsToken ==
  TokenOfText(<< "{", "\"", "n", "\"", ":", "\"", "E", "v", "e", "\"", ",", "\"", "b", "\"", ":", "\"", "A", "+", "\"", ",", "\"", "g", "\"", ":", "[", "]", ",", "\"", "t", "\"", ":", "0", "}" >>)
NoHelplinesToken ==
  TokenOfText(<< "{", "\"", "n", "\"", ":", "\"", "E", "v", "e", "\"", ",", "\"", "b", "\"", ":", "\"", "A", "+", "\"", ",", "\"", "e", "\"", ":", "[", "{", "\"", "n", "\"", ":", "\"", "M", "o", "m", "\"", ",", "\"", "p", "\"", ":", "\"", "5", "5", "\"", "}", "]", ",", "\"", "t", "\"", ":", "0", "}" >>)
NoTimeToken ==
  TokenOfText(<< "{", "\"", "n", "\"", ":", "\"", "E", "v", "e", "\"", ",", "\"", "b", "\"", ":", "\"", "A", "+", "\"", ",", "\"", "e", "\"", ":", "[", "{", "\"", "n", "\"", ":", "\"", "M", "o", "m", "\"", ",", "\"", "p", "\"", ":", "\"", "5", "5", "\"", "}", "]", ",", "\"", "g", "\"", ":", "[", "]", "}" >>)
NoContactNameToken ==
  TokenOfText(<< "{", "\"", "n", "\"", ":", "\"", "E", "v", "e", "\"", ",", "\"", "b", "\"", ":", "\"", "A", "+", "\"", ",", "\"", "e", "\"", ":", "[", "{", "\"", "p", "\"", ":", "\"", "5", "5", "\"", "}", "]", ",", "\"", "g", "\"", ":", "[", "]", ",", "\"", "t", "\"", ":", "0", "}" >>)
EmptyContactsToken ==
  TokenOfText(<< "{", "\"", "n", "\"", ":", "\"", "E", "v", "e", "\"", ",", "\"", "b", "\"", ":", "\"", "A", "+", "\"", ",", "\"", "e", "\"", ":", "[", "]", ",", "\"", "g", "\"", ":", "[", "]", ",", "\"", "t", "\"", ":", "0", "}" >>)

\* The hand-made tokens whose payload lacks a subfield.
MissingSubfieldTokens ==
  { NoPhoneToken, NoNameToken, NoBloodGroupToken, NoContactsToken,
    NoHelplinesToken, NoTimeToken, NoContactNameToken, EmptyContactsToken }

\* Texts that are no token: empty, arbitrary, of the earlier scheme, a
\* token cut short, and payloads that are no JSON or no object with fields.
TruncatedToken == SubSeq(ForgedToken, 1, Len(ForgedToken) - 7)

NonTokenTexts ==
  { <<>>, << "h", "e", "l", "l", "o", ",", " ", "w", "o", "r", "l", "d", "!" >>, LegacyToken, UnknownLegacyToken, ConstructorKey,
    TruncatedToken, TokenOfText(<< "n", "o", "t", " ", "j", "s", "o", "n" >>), TokenOfText(<< "n", "u", "l", "l" >>),
    TokenOfText(<< "{", "}" >>), TokenOfText(<< "{", "\"", "e", "\"", ":", "[", "]", ",", "\"", "g", "\"", ":", "[", "]", "}" >>) }

DecodeTexts == NonTokenTexts \cup { ForgedToken } \cup MissingSubfieldTokens

\* decodeUserToken(encodeUserToken(profile)), Date.now() reading the clock.
CodecRoundTrip(profile) ==
  /\ \E token \in {encodeUserToken(profile, now)} :
       codec' = [op |-> "roundtrip", in |-> profile, token |-> token,
                 out |-> decodeUserToken(token)]
  /\ UNCHANGED <<serverless, now, users, accidentLogs, photos, inherited,
                 disk, issued, served, resp, invocation>>

\* The profiles that are encoded on their own: of either name and every
\* order of contacts.
EncodedProfiles(at) ==
  { Profile(n, OPositive, e, << Police >>, c) :
      n \in ProfileNames, e \in ProfileContacts, c \in 0..at }

\* encodeUserToken(profile), Date.now() reading the clock; out is the
\* token of the call before, if that call encoded the same profile.
CodecEncode(profile) ==
  /\ \E token \in {encodeUserToken(profile, now)} :
       codec' = [op |-> "encode", in |-> profile, token |-> token,
                 out |-> IF codec.op \in {"encode", "roundtrip"} /\ codec.in = profile
                         THEN codec.token ELSE Undefined]
  /\ UNCHANGED <<serverless, now, users, accidentLogs, photos, inherited,
                 disk, issued, served, resp, invocation>>

\* decodeUserToken(text)
CodecDecode(text) ==
  /\ codec' = [op |-> "decode", in |-> Str(text), token |-> Str(text),
               out |-> decodeUserToken(Str(text))]
  /\ UNCHANGED <<serverless, now, users, accidentLogs, photos, inherited,
                 disk, issued, served, resp, invocation>>

CodecNext ==
  \/ Tick
  \/ \E profile \in Profiles(now) : CodecRoundTrip(profile)
  \/ \E profile \in EncodedProfiles(now) : CodecEncode(profile)
  \/ \E text \in DecodeTexts : CodecDecode(text)

CodecSpec == Init /\ [][CodecNext]_vars

\* C1: decoding the token of a profile gives the profile back, field for
\* field, createdAt and the order of contacts and helplines included.
C1_RoundTrip == codec.op = "roundtrip" => codec.out = codec.in

\* C2: decodeUserToken throws on no text, and returns null on every text
\* that is no token.
C2_DecodeNeverThrows ==
  codec.op = "decode" =>
    /\ ~IsThrow(codec.out)
    /\ codec.in.s \in NonTokenTexts => codec.out = Null

\* C2 happens: a token cut short was decoded to null.
C2_TruncatedDecoded ==
  codec.op = "decode" /\ codec.in.s = TruncatedToken /\ codec.out = Null

(***************************************************************************)
(* Photos: POST /api/upload-photo, GET /photo/:viewToken and the store     *)
(***************************************************************************)
\* At most MaxPhotos view tokens are drawn per process.
MaxPhotos == 1

\* generateToken(): 32 hexadecimal characters of crypto.randomBytes(16);
\* the i-th token drawn.
ViewToken(i) == [j \in 1..32 |-> IF j = 32 THEN AsciiPrintable[i + 17] ELSE "0"]

\* req.file as multer leaves it: with a filename under disk storage,
\* without one under the memory storage of a serverless process; or
\* undefined when the request carries no photo.
UploadedFile ==
  IF serverless
  THEN Obj([originalname |-> Str(<< "a", ".", "j", "p", "g" >>), size |-> Num(1)])
  ELSE Obj([filename |-> Str(<< "p", "h", "o", "t", "o", "-", "1", ".", "j", "p", "g" >>), originalname |-> Str(<< "a", ".", "j", "p", "g" >>),
            size |-> Num(1)])

Files == { Undefined, UploadedFile }

\* `${x}` of a template literal for a string or undefined x.
Text(x) == IF x.t = "string" THEN x.s ELSE << "u", "n", "d", "e", "f", "i", "n", "e", "d" >>

NoPhotoError == Str(<< "No photo uploaded" >>)
PhotoNotFound == Str(<< "Photo not found or expired" >>)
PhotoExpired == Str(<< "Photo link expired - one-time access only" >>)
PhotoPage == Str(<< "photo-view.html" >>)
UploadedMessage == Str(<< "Photo uploaded successfully" >>)

\* The photoInfo object of lines 444-452.
PhotoInfo(file, body, viewToken, at) ==
  Obj([filename |-> Prop(file, "filename"),
       originalName |-> Prop(file, "originalname"),
       size |-> Prop(file, "size"),
       patientName |-> Prop(body, "patientName"),
       timestamp |-> Prop(body, "timestamp"),
       uploadedAt |-> IsoString(at),
       viewToken |-> Str(viewToken)])

\* The record logPhotoUpload(token, photoInfo) stores: { ...photoInfo,
\* token, viewed: false, createdAt }.
PhotoRecord(token, photoInfo, at) ==
  Obj([k \in DOMAIN photoInfo.o \cup {"token", "viewed", "createdAt"} |->
    IF k = "token" THEN token
    ELSE IF k = "viewed" THEN Bool(FALSE)
    ELSE IF k = "createdAt" THEN IsoString(at)
    ELSE photoInfo.o[k]])

\* The body of the answer to a successful upload.
UploadedBody(file, viewToken) ==
  Obj([success |-> Bool(TRUE),
       photoUrl |-> Str(<< "/", "u", "p", "l", "o", "a", "d", "s", "/" >> \o Text(Prop(file, "filename"))),
       secureUrl |-> Str(<< "h", "t", "t", "p", ":", "/", "/", "h", "o", "s", "t", "/", "p", "h", "o", "t", "o", "/" >> \o viewToken),
       viewToken |-> Str(viewToken),
       message |-> UploadedMessage])

\* A savePhotos that writes nothing (a fault to test C29 against).
PhotosNotSaved(written) == disk' = disk

\* savePhotos() after the collection became photos', the write having
\* succeeded or not.
SavePhotos(written) == disk' = Saved("photos", photos', written)

\* logPhotoUpload(token, photoInfo), called when new Date() is at.
logPhotoUpload(token, photoInfo, at, written) ==
  /\ photos' = Put(photos, Prop(photoInfo, "viewToken").s,
                   PhotoRecord(token, photoInfo, at))
  /\ SavePhotos(written)

\* POST /api/upload-photo with body `body` and file `file`.
UploadPhoto(body, file) ==
  /\ IF Falsy(getUser(Text(Prop(body, "token"))))
     THEN /\ resp' = Reply("upload", body, 404, Obj([error |-> UserNotFoundError]))
          /\ UNCHANGED <<photos, disk>>
     ELSE IF Falsy(file)
     THEN /\ resp' = Reply("upload", body, 400, Obj([error |-> NoPhotoError]))
          /\ UNCHANGED <<photos, disk>>
     ELSE \E i \in 1..MaxPhotos, written \in WriteOutcomes :
            /\ ViewToken(i) \notin DOMAIN photos
            /\ logPhotoUpload(Prop(body, "token"),
                 PhotoInfo(file, body, ViewToken(i), now), now, written)
            /\ resp' = [Reply("upload", body, 200, UploadedBody(file, ViewToken(i)))
                          EXCEPT !.token = Str(ViewToken(i)),
                                 !.written = written]
  /\ UNCHANGED <<serverless, now, users, accidentLogs, inherited, issued,
                 served, codec, invocation>>

\* record.viewed = true; record.viewedAt = new Date().toISOString()
Marked(record, at) ==
  [record EXCEPT !.o = Put(Put(@, "viewed", Bool(TRUE)), "viewedAt", IsoString(at))]

\* The record the store holds under a key itself, undefined if none.
Own(coll, key) == IF key \in DOMAIN coll THEN coll[key] ELSE Undefined

\* markPhotoAsViewed(viewToken) of database.js, on photos, the built-in
\* object that photos[viewToken] may be, and photos.json.
markPhotoAsViewed(viewToken, written) ==
  IF Falsy(Index(photos, viewToken)) THEN UNCHANGED <<photos, inherited, disk>>
  ELSE IF viewToken \in DOMAIN photos
  THEN /\ photos' = Put(photos, viewToken, Marked(photos[viewToken], now))
       /\ UNCHANGED inherited
       /\ SavePhotos(written)
  ELSE /\ inherited' = Marked(ObjectFunction, now).o
       /\ UNCHANGED photos
       /\ SavePhotos(written)

\* The write outcomes of markPhotoAsViewed(viewToken): no write when
\* photos[viewToken] is falsy.
MarkOutcomes(viewToken) ==
  IF Falsy(Index(photos, viewToken)) THEN {FALSE} ELSE WriteOutcomes

\* GET /photo/:viewToken
ViewPhoto(viewToken) ==
  /\ \E photoInfo \in {getPhotoByViewToken(viewToken)} :
       IF Falsy(photoInfo)
       THEN /\ resp' = Reply("view", Str(viewToken), 404, PhotoNotFound)
            /\ UNCHANGED <<photos, inherited, disk, served>>
       ELSE IF ~Falsy(Prop(photoInfo, "viewed"))
       THEN /\ resp' = [Reply("view", Str(viewToken), 410, PhotoExpired)
                          EXCEPT !.before = Own(photos, viewToken)]
            /\ UNCHANGED <<photos, inherited, disk, served>>
       ELSE \E written \in WriteOutcomes :
            /\ markPhotoAsViewed(viewToken, written)
            /\ resp' = [Reply("view", Str(viewToken), 200, PhotoPage)
                          EXCEPT !.before = Own(photos, viewToken),
                                 !.after = Own(photos', viewToken),
                                 !.written = written]
            /\ served' = Put(served, viewToken,
                 IF viewToken \in DOMAIN served THEN served[viewToken] + 1
                 ELSE 1)
  /\ UNCHANGED <<serverless, now, users, accidentLogs, issued, codec, invocation>>

\* markPhotoAsViewed(viewToken) called on the store directly.
MarkPhotoAsViewed(viewToken) ==
  /\ \E written \in MarkOutcomes(viewToken) :
       /\ markPhotoAsViewed(viewToken, written)
       /\ resp' = [Reply("markPhotoAsViewed", Str(viewToken), 0, Undefined)
                     EXCEPT !.before = Own(photos, viewToken),
                            !.after = Own(photos', viewToken),
                            !.written = written]
  /\ UNCHANGED <<serverless, now, users, accidentLogs, issued, served, codec, invocation>>

\* The upload requests: of the stored user, of a token no store holds, of
\* the inherited name and of a self-contained token.
UploadBodies ==
  { JSONClone(Obj([token |-> Str(t), patientName |-> Ravi])) :
      t \in { LegacyToken, UnknownLegacyToken, ConstructorKey, ForgedToken } }

\* The view tokens a client asks about.
KnownViewTokens == DOMAIN photos \cup { UnknownLegacyToken, ConstructorKey }

PhotoNext ==
  \/ Tick
  \/ \E body \in UploadBodies, file \in Files : UploadPhoto(body, file)
  \/ \E viewToken \in KnownViewTokens : ViewPhoto(viewToken)
  \/ \E viewToken \in KnownViewTokens : MarkPhotoAsViewed(viewToken)
  \/ Restart

PhotoSpec == Init /\ [][PhotoNext]_vars

\* C9: a call of markPhotoAsViewed on a record that is already viewed
\* leaves the record as it was, viewedAt included; a call on a token the
\* store has no record of leaves it without one.
C9_MarkIdempotent ==
  resp.op = "markPhotoAsViewed" =>
    /\ ~Falsy(Prop(resp.before, "viewed")) => resp.after = resp.before
    /\ resp.before = Undefined => resp.after = Undefined

\* C10: within one process no view token has the photo page served more
\* than once; a request for a token whose record is viewed is answered
\* 410; a request for a token the store has no record of is answered 404.
C10_OneTimeView ==
  /\ \A viewToken \in DOMAIN served : served[viewToken] <= 1
  /\ resp.op = "view" /\ ~Falsy(Prop(resp.before, "viewed")) => resp.status = 410
  /\ resp.op = "view" /\ resp.before = Undefined => resp.status = 404

(***************************************************************************)
(* Properties of registration and resolution                               *)
(***************************************************************************)
\* C3: in every reachable state the public-profile lookup of every issued
\* token answers 200 from the decoded token alone, without consulting the
\* store, whatever the store holds (nothing after a serverless restart or
\* after deleteUser).
C3_IssuedTokenResolves ==
  \A token \in DOMAIN issued :
    \E r \in {ResolveHandler(Str(token))} : r.status = 200 /\ ~r.consulted

\* C3 happens: an issued token that the store no longer holds was resolved.
C3_ResolvedWithoutRecord ==
  /\ resp.op = "resolve"
  /\ resp.arg.s \in DOMAIN issued
  /\ resp.arg.s \notin DOMAIN users
  /\ resp.status = 200

\* C4: a lookup answers 404 exactly when the token does not decode and the
\* store holds no record under it.
C4_NotFoundExactly ==
  resp.op = "resolve" =>
    ((resp.status = 404) <=>
       (decodeUserToken(resp.arg) = Null /\ resp.before = Undefined))

\* The requirements of the five validation steps on a request body, stated
\* on the body alone.
Missing(x) == x.t \in {"undefined", "null"} \/ (x.t = "string" /\ x.s = <<>>)

NoEntries(x) == x.t # "array" \/ Len(x.a) < 1

EntryOk(x, phoneKey) ==
  /\ x.t = "object"
  /\ ~Missing(Prop(x, "name"))
  /\ Prop(x, phoneKey).t = "string"
  /\ \E i \in 1..Len(Prop(x, phoneKey).s) : Prop(x, phoneKey).s[i] \notin Whitespace

BadEntry(x, phoneKey) ==
  x.t = "array" /\ \E i \in 1..Len(x.a) : ~EntryOk(x.a[i], phoneKey)

\* The first step a body fails, 0 when it fails none.
FirstFailingStep(body) ==
  IF Missing(Prop(body, "fullName")) \/ Missing(Prop(body, "bloodGroup")) THEN 1
  ELSE IF NoEntries(Prop(body, "emergencyContacts")) THEN 2
  ELSE IF NoEntries(Prop(body, "governmentHelplines")) THEN 3
  ELSE IF BadEntry(Prop(body, "emergencyContacts"), "phone") THEN 4
  ELSE IF BadEntry(Prop(body, "governmentHelplines"), "number") THEN 5
  ELSE 0

StepError ==
  << MissingFieldsError, NoContactError, NoHelplineError, BadContactError,
     BadHelplineError >>

BlankOrAbsent(x) ==
  \/ x.t \in {"undefined", "null"}
  \/ x.t = "string" /\ \A i \in 1..Len(x.s) : x.s[i] \in Whitespace

\* C6: a registration whose fullName or bloodGroup is absent or empty
\* after trimming is answered 400 with the message of step 1 and issues no
\* token.
C6_BlankNameRejected ==
  ( /\ resp.op = "register"
    /\ \/ BlankOrAbsent(Prop(resp.arg, "fullName"))
       \/ BlankOrAbsent(Prop(resp.arg, "bloodGroup")) ) =>
    /\ resp.status = 400
    /\ resp.body = Obj([error |-> MissingFieldsError])
    /\ resp.token = Undefined

\* Normalization as the specification words it, on sequences of characters.
RECURSIVE WithoutLeadingSpace(_)
WithoutLeadingSpace(s) ==
  IF s # <<>> /\ Head(s) \in Whitespace THEN WithoutLeadingSpace(Tail(s)) ELSE s

RECURSIVE WithoutTrailingSpace(_)
WithoutTrailingSpace(s) ==
  IF s # <<>> /\ s[Len(s)] \in Whitespace
  THEN WithoutTrailingSpace(SubSeq(s, 1, Len(s) - 1)) ELSE s

Trimmed(s) == WithoutTrailingSpace(WithoutLeadingSpace(s))

LowerCase == << "a", "b", "c", "d", "e", "f", "g", "h", "i", "j", "k", "l", "m",
                "n", "o", "p", "q", "r", "s", "t", "u", "v", "w", "x", "y", "z" >>
UpperCase == << "A", "B", "C", "D", "E", "F", "G", "H", "I", "J", "K", "L", "M",
                "N", "O", "P", "Q", "R", "S", "T", "U", "V", "W", "X", "Y", "Z" >>

UpperCased(s) ==
  [i \in 1..Len(s) |->
    IF \E k \in 1..26 : LowerCase[k] = s[i]
    THEN UpperCase[CHOOSE k \in 1..26 : LowerCase[k] = s[i]] ELSE s[i]]

RECURSIVE DigitsOnly(_)
DigitsOnly(s) ==
  IF s = <<>> THEN <<>>
  ELSE IF Head(s) \in Digits THEN << Head(s) >> \o DigitsOnly(Tail(s))
  ELSE DigitsOnly(Tail(s))

\* The view the specification promises for an accepted request body.
ExpectedView(body) ==
  LET contacts == Prop(body, "emergencyContacts").a
      helplines == Prop(body, "governmentHelplines").a
  IN Obj([fullName |-> Str(Trimmed(Prop(body, "fullName").s)),
          bloodGroup |-> Str(UpperCased(Trimmed(Prop(body, "bloodGroup").s))),
          emergencyContacts |-> Arr([i \in 1..Len(contacts) |->
            Obj([name |-> Str(Trimmed(Prop(contacts[i], "name").s)),
                 phoneEncoded |-> Str(Base64Text(Utf8Bytes(
                   DigitsOnly(Prop(contacts[i], "phone").s))))])]),
          governmentHelplines |-> Arr([i \in 1..Len(helplines) |->
            Obj([name |-> Str(Trimmed(Prop(helplines[i], "name").s)),
                 number |-> Str(DigitsOnly(Prop(helplines[i], "number").s))])])])

\* C7: the lookup of an issued token answers 200 with the normalized view
\* of the request body that the token was issued for: names trimmed, blood
\* group trimmed and upper-cased, phoneEncoded the base64 text of the
\* phone's digits, helpline numbers their digits, all in the body's order.
C7_ResolveYieldsNormalizedView ==
  resp.op = "resolve" /\ resp.arg.s \in DOMAIN issued =>
    resp.status = 200 /\ resp.body = ExpectedView(issued[resp.arg.s])

\* C7 happens: a token issued for a body that normalization changes was
\* looked up.
C7_ResolvedPaddedBody ==
  /\ resp.op = "resolve"
  /\ resp.arg.s \in DOMAIN issued
  /\ Prop(issued[resp.arg.s], "fullName") = PaddedAsha
  /\ resp.status = 200

\* C8: in every view a lookup answers with, from the decoded token or from
\* the stored record, each emergency contact has no property but name and
\* phoneEncoded, and phoneEncoded is the base64 text of the contact's
\* phone, never the phone itself.
C8_PhoneNeverPlain ==
  resp.op = "resolve" /\ resp.status = 200 =>
    LET shown == Prop(resp.body, "emergencyContacts").a
        held == Prop(resp.user, "emergencyContacts").a
    IN /\ Len(shown) = Len(held)
       /\ \A i \in 1..Len(shown) :
            /\ DOMAIN shown[i].o \subseteq {"name", "phoneEncoded"}
            /\ Prop(held[i], "phone").t = "string" =>
                 /\ Prop(shown[i], "phoneEncoded") =
                      Str(Base64Text(Utf8Bytes(Prop(held[i], "phone").s)))
                 /\ Prop(held[i], "phone").s # <<>> =>
                      \A k \in DOMAIN shown[i].o :
                        k # "name" => shown[i].o[k] # Prop(held[i], "phone")

\* C8 happens: a view was built from a stored record whose contact has a
\* phone.
C8_ViewFromStore ==
  /\ resp.op = "resolve"
  /\ resp.status = 200
  /\ resp.consulted
  /\ Prop(resp.user, "emergencyContacts").a[1].o.phone.s # <<>>

(***************************************************************************)
(* The accident log: POST /api/users/:token/location and the store         *)
(***************************************************************************)
\* At most MaxLogs entries are appended per process.
MaxLogs == 2

\* array.slice(start): a new array of the elements from index start on,
\* counted from the end when start is negative.
Slice(a, start) ==
  LET from == IF start < 0
              THEN (IF Len(a) + start > 0 THEN Len(a) + start ELSE 0)
              ELSE (IF start < Len(a) THEN start ELSE Len(a))
  IN [i \in 1..(Len(a) - from) |-> a[from + i]]

\* array.reverse(): the elements of the receiver in the opposite order.
Reverse(a) == [i \in 1..Len(a) |-> a[Len(a) + 1 - i]]

\* { id: Date.now(), token: token, ...locationData }, Date.now() being at.
LogEntry(token, locationData, at) ==
  Obj([k \in {"id", "token"} \cup DOMAIN locationData.o |->
    IF k \in DOMAIN locationData.o THEN locationData.o[k]
    ELSE IF k = "id" THEN Num(at)
    ELSE token])

\* A push that overwrites the last element (a fault to test C15 against).
ReplaceLast(log, entry) ==
  IF log = <<>> THEN << entry >> ELSE [log EXCEPT ![Len(log)] = entry]

\* accidentLogs.push(logEntry)
Push(log, entry) == Append(log, entry)

\* logAccidentLocation(token, locationData), called when Date.now() is at;
\* the write of saveAccidentLogs() succeeds or not.
logAccidentLocation(token, locationData, at, written) ==
  /\ accidentLogs' = Push(accidentLogs, LogEntry(token, locationData, at))
  /\ disk' = Saved("accidentLogs", accidentLogs', written)

\* A getRecentAccidentLogs that reverses the log itself (a fault to test
\* C17 against).
ReverseInPlace(limit) ==
  [returned |-> Reverse(accidentLogs), log |-> Reverse(accidentLogs)]

\* getRecentAccidentLogs(limit): accidentLogs.slice(-limit).reverse(); the
\* array returned and the log after the call.
getRecentAccidentLogs(limit) ==
  [returned |-> Reverse(Slice(accidentLogs, -limit)), log |-> accidentLogs]

\* req.body || {}
OrEmpty(body) == IF Falsy(body) THEN Obj(<<>>) ELSE body

\* A handler argument without the user name (a fault to test C11 against).
Anonymous(user, body, at) ==
  Obj([latitude |-> Prop(OrEmpty(body), "latitude"),
       longitude |-> Prop(OrEmpty(body), "longitude"),
       mapsUrl |-> Prop(OrEmpty(body), "mapsUrl"),
       reportedAt |-> IsoString(at)])

\* The object the handler passes to logAccidentLocation, new Date() being
\* at.
LocationData(user, body, at) ==
  Obj([userName |-> Prop(user, "fullName"),
       latitude |-> Prop(OrEmpty(body), "latitude"),
       longitude |-> Prop(OrEmpty(body), "longitude"),
       mapsUrl |-> Prop(OrEmpty(body), "mapsUrl"),
       reportedAt |-> IsoString(at)])

Okay == Obj([ok |-> Bool(TRUE)])

\* POST /api/users/:token/location with body `body`; the clock may advance
\* between the new Date() of the handler and the Date.now() of the store.
LogLocation(token, body) ==
  /\ \E found \in {LookupUser(Str(token))} :
       IF Falsy(found.user)
       THEN /\ resp' = [Reply("location", Str(token), 404,
                              Obj([error |-> UserNotFoundError]))
                          EXCEPT !.data = body,
                                 !.before = Arr(accidentLogs),
                                 !.after = Arr(accidentLogs)]
            /\ UNCHANGED <<now, accidentLogs, disk>>
       ELSE \E d \in 0..1, written \in WriteOutcomes :
            /\ Len(accidentLogs) < MaxLogs
            /\ now + d <= MaxClock
            /\ now' = now + d
            /\ logAccidentLocation(Str(token), LocationData(found.user, body, now),
                                   now + d, written)
            /\ resp' = [Reply("location", Str(token), 200, Okay)
                          EXCEPT !.data = body, !.user = found.user,
                                 !.consulted = found.consulted,
                                 !.written = written,
                                 !.before = Arr(accidentLogs),
                                 !.after = Arr(accidentLogs')]
  /\ UNCHANGED <<serverless, users, photos, inherited, issued, served, codec, invocation>>

\* getRecentAccidentLogs(limit) called on the store.
RecentLogs(limit) ==
  /\ \E r \in {getRecentAccidentLogs(limit)} :
       /\ accidentLogs' = r.log
       /\ resp' = [Reply("getRecentAccidentLogs", Num(limit), 0, Arr(r.returned))
                     EXCEPT !.before = Arr(accidentLogs), !.after = Arr(r.log)]
  /\ UNCHANGED <<serverless, now, users, photos, inherited, disk, issued,
                 served, codec, invocation>>

\* The bodies of a location request: a position, and none.
Position ==
  JSONClone(Obj([latitude |-> Num(12), longitude |-> Num(77),
                 mapsUrl |-> Str(<< "m", "a", "p", "s", "?", "q", "=", "1", "2", ",", "7", "7" >>)]))

LocationBodies == { Position, Undefined }

\* The tokens of location requests: of the stored record, of no record,
\* of the inherited name, and a self-contained one.
LocationTokens == { LegacyToken, UnknownLegacyToken, ConstructorKey, ForgedToken }

LogNext ==
  \/ Tick
  \/ \E token \in LocationTokens, body \in LocationBodies : LogLocation(token, body)
  \/ \E limit \in 0..(MaxLogs + 1) : RecentLogs(limit)
  \/ Restart

LogSpec == Init /\ [][LogNext]_vars

\* C11: a location request on a token that decodes, or that the store has
\* a record of, is answered ok and appends one entry to the log: the
\* entry's token is the request's, its userName the fullName of the
\* resolved profile, its latitude, longitude and mapsUrl those of the
\* request; getRecentAccidentLogs(1) then returns that entry alone.
C11_LocationAppendsEntry ==
  resp.op = "location" => \A decoded \in {decodeUserToken(resp.arg)} :
    (decoded # Null \/ resp.arg.s \in DOMAIN users) =>
      /\ resp.status = 200 /\ resp.body = Okay
      /\ Len(resp.after.a) = Len(resp.before.a) + 1
      /\ SubSeq(resp.after.a, 1, Len(resp.before.a)) = resp.before.a
      /\ accidentLogs = resp.after.a
      /\ \A entry \in {accidentLogs[Len(accidentLogs)]} :
           /\ Prop(entry, "token") = resp.arg
           /\ Prop(entry, "userName") =
                Prop(IF decoded # Null THEN decoded ELSE users[resp.arg.s],
                     "fullName")
           /\ Prop(entry, "latitude") = Prop(resp.data, "latitude")
           /\ Prop(entry, "longitude") = Prop(resp.data, "longitude")
           /\ Prop(entry, "mapsUrl") = Prop(resp.data, "mapsUrl")
           /\ getRecentAccidentLogs(1).returned = << entry >>

\* C11 happens: in a serverless process a position was logged under a
\* self-contained token, after an earlier entry.
C11_LoggedServerless ==
  /\ resp.op = "location" /\ resp.status = 200
  /\ serverless
  /\ resp.arg.s = ForgedToken
  /\ resp.data = Position
  /\ Len(accidentLogs) = 2

\* C12: getRecentAccidentLogs(n) returns the last min(n, length) entries of
\* the log, the most recent first, for every n >= 0 (none for n = 0), and
\* leaves the log as it was.
C12_RecentLogsLastN ==
  resp.op = "getRecentAccidentLogs" =>
    LET log == resp.before.a
        k == IF resp.arg.n < Len(log) THEN resp.arg.n ELSE Len(log)
    IN /\ Len(resp.body.a) = k
       /\ \A i \in 1..k : resp.body.a[i] = log[Len(log) + 1 - i]
       /\ resp.after = resp.before

(***************************************************************************)
(* The store as a whole: every operation that changes a collection, and    *)
(* GET /api/stats                                                          *)
(***************************************************************************)
\* A getStats that counts the users as photos (a fault to test C13
\* against).
UsersAsPhotos ==
  Obj([totalUsers |-> Num(Cardinality(DOMAIN users)),
       totalAccidentLogs |-> Num(Len(accidentLogs)),
       totalPhotos |-> Num(Cardinality(DOMAIN users)),
       lastUpdated |-> IsoString(now)])

\* getStats(): Object.keys(...).length of users and photos, the length
\* of accidentLogs, and the time of the call.
getStats ==
  Obj([totalUsers |-> Num(Cardinality(DOMAIN users)),
       totalAccidentLogs |-> Num(Len(accidentLogs)),
       totalPhotos |-> Num(Cardinality(DOMAIN photos)),
       lastUpdated |-> IsoString(now)])

\* The three collections of the store.
Collections == [users |-> users, accidentLogs |-> accidentLogs, photos |-> photos]

\* GET /api/stats: res.json(db.getStats()); before and after are the
\* collections when the request came and when it was answered.
Stats ==
  /\ resp' = [Reply("stats", Undefined, 200, getStats)
                EXCEPT !.before = Obj(Collections), !.after = Obj(Collections)]
  /\ UNCHANGED <<serverless, now, users, accidentLogs, photos, inherited,
                 disk, issued, served, codec, invocation>>

\* saveUser(token, user) called on the store.
SaveUser(token, user) ==
  /\ \E written \in WriteOutcomes :
       /\ saveUser(token, user, written)
       /\ resp' = [Reply("saveUser", Str(token), 0, Undefined)
                     EXCEPT !.user = user, !.written = written]
  /\ UNCHANGED <<serverless, now, accidentLogs, photos, inherited, issued,
                 served, codec, invocation>>

\* logPhotoUpload(token, photoInfo) called on the store, photoInfo the
\* object of the upload handler for a view token of the caller's choice.
LogPhotoUpload(body, viewToken) ==
  /\ \E written \in WriteOutcomes :
       /\ logPhotoUpload(Prop(body, "token"),
            PhotoInfo(UploadedFile, body, viewToken, now), now, written)
       /\ resp' = [Reply("logPhotoUpload", Str(viewToken), 0, Undefined)
                     EXCEPT !.before = Own(photos, viewToken),
                            !.after = Own(photos', viewToken),
                            !.written = written]
  /\ UNCHANGED <<serverless, now, users, accidentLogs, inherited, issued,
                 served, codec, invocation>>

\* The requests made of the store.
StoreTokens == { LegacyToken, UnknownLegacyToken }

StoreViewTokens == { ViewToken(i) : i \in 1..MaxPhotos } \cup { UnknownLegacyToken }

StoreUpload == JSONClone(Obj([token |-> Str(LegacyToken), patientName |-> Ravi]))

StoreNext ==
  \/ Tick
  \/ SaveUser(LegacyToken, LegacyUser)
  \/ \E token \in StoreTokens : DeleteUser(token)
  \/ LogLocation(ForgedToken, Position)
  \/ \E limit \in 1..2 : RecentLogs(limit)
  \/ \E i \in 1..MaxPhotos : LogPhotoUpload(StoreUpload, ViewToken(i))
  \/ \E viewToken \in StoreViewTokens : MarkPhotoAsViewed(viewToken)
  \/ Stats
  \/ Restart

StoreSpec == Init /\ [][StoreNext]_vars

\* C13: GET /api/stats answers with the number of profiles the store
\* holds, of entries of the accident log and of photo records, and leaves
\* the three collections as they were.
C13_StatsCountCollections ==
  resp.op = "stats" =>
    /\ Prop(resp.body, "totalUsers") =
         Num(Cardinality({token \in StoreTokens : Own(users, token) # Undefined}))
    /\ Prop(resp.body, "totalAccidentLogs") =
         Num(Cardinality({i \in 1..MaxLogs : i <= Len(accidentLogs)}))
    /\ Prop(resp.body, "totalPhotos") =
         Num(Cardinality({v \in StoreViewTokens : Own(photos, v) # Undefined}))
    /\ resp.after = resp.before
    /\ resp.after = Obj(Collections)

\* C13 happens: the statistics were asked of a store whose three
\* collections hold different numbers of records.
C13_StatsOfUnequalCounts ==
  /\ resp.op = "stats"
  /\ Cardinality(DOMAIN users) = 0
  /\ Len(accidentLogs) = 2
  /\ Cardinality(DOMAIN photos) = 1

\* C14: every registration and every lookup is answered by its handler,
\* with a success (200), a validation error (400) or not-found (404); none
\* is answered by the error handler of the app on an exception that left
\* the handler.
C14_NoFaultEscapes ==
  resp.op \in {"register", "resolve"} =>
    /\ resp.status \in {200, 400, 404}
    /\ resp.body # InternalServerError

\* A step that answers a request (every request changes resp, but for a
\* repeated saveUser or deleteUser, which changes nothing).
Answered(op) == resp' # resp /\ resp'.op = op

\* The records of a collection under the keys other than key are the same
\* before and after the step.
OthersKept(before, after, key) ==
  /\ DOMAIN before \ {key} = DOMAIN after \ {key}
  /\ \A k \in DOMAIN before \ {key} : after[k] = before[k]

\* C15: every request handler runs as one step, and in every step the
\* mutation that is reported is in the store afterwards and nothing else of
\* the store is touched: a location request answered ok appends its one
\* entry (so k of them grow the log by k), saveUser leaves its record,
\* logPhotoUpload its photo record and markPhotoAsViewed the viewed flag,
\* each keeping the records under all other keys; no other request changes
\* the log.
C15_MutationsApplied ==
  [][ /\ (Answered("location") /\ resp'.status = 200) =>
           /\ Len(accidentLogs') = Len(accidentLogs) + 1
           /\ SubSeq(accidentLogs', 1, Len(accidentLogs)) = accidentLogs
           /\ Prop(accidentLogs'[Len(accidentLogs')], "token") = resp'.arg
           /\ UNCHANGED <<users, photos>>
      /\ Answered("saveUser") =>
           /\ Own(users', resp'.arg.s) = resp'.user
           /\ OthersKept(users, users', resp'.arg.s)
           /\ UNCHANGED <<accidentLogs, photos>>
      /\ Answered("logPhotoUpload") =>
           /\ Prop(Own(photos', resp'.arg.s), "viewToken") = resp'.arg
           /\ OthersKept(photos, photos', resp'.arg.s)
           /\ UNCHANGED <<accidentLogs, users>>
      /\ (Answered("markPhotoAsViewed") /\ resp'.arg.s \in DOMAIN photos) =>
           /\ Prop(Own(photos', resp'.arg.s), "viewed") = Bool(TRUE)
           /\ OthersKept(photos, photos', resp'.arg.s)
           /\ UNCHANGED <<accidentLogs, users>>
      /\ accidentLogs' # accidentLogs =>
           \/ Answered("location") /\ resp'.status = 200
           \/ Answered("restart")
    ]_vars

\* C15 happens: two location requests were answered ok in a process that
\* also put a photo record and marked it viewed.
C15_TwoLoggedBesidePhoto ==
  /\ resp.op = "location" /\ resp.status = 200
  /\ Len(resp.before.a) = 1 /\ Len(accidentLogs) = 2
  /\ \E v \in DOMAIN photos : Prop(photos[v], "viewed") = Bool(TRUE)
  /\ serverless

\* C16: of any two entries of the accident log, the one appended later has
\* the strictly greater id.
C16_IdsStrictlyIncrease ==
  \A i, j \in 1..Len(accidentLogs) :
    i < j => Prop(accidentLogs[i], "id").n < Prop(accidentLogs[j], "id").n

\* C17: within a process no step removes, changes or moves an entry of the
\* accident log: after every step other than the start of a new process
\* the log before the step is the beginning of the log after it.
C17_LogAppendOnly ==
  [][ resp'.op # "restart" =>
        /\ Len(accidentLogs') >= Len(accidentLogs)
        /\ SubSeq(accidentLogs', 1, Len(accidentLogs)) = accidentLogs
    ]_vars

\* C17 happens: the recent entries were read from a log of two entries,
\* which is still the log.
C17_ReadLogOfTwo ==
  /\ resp.op = "getRecentAccidentLogs"
  /\ Len(resp.body.a) = 2
  /\ resp.body.a[1] # resp.body.a[2]
  /\ accidentLogs = resp.before.a

\* C18: within a process no step removes a photo record or takes the
\* viewed flag of a record from true back to false, whatever operation of
\* the store the step is (logPhotoUpload included).
C18_ViewedStaysTrue ==
  [][ resp'.op # "restart" =>
        \A v \in DOMAIN photos :
          /\ v \in DOMAIN photos'
          /\ Prop(photos[v], "viewed") = Bool(TRUE) =>
               Prop(photos'[v], "viewed") = Bool(TRUE)
    ]_vars

\* The file that each operation of the store writes.
FileWritten ==
  [saveUser |-> "users", register |-> "users", deleteUser |-> "users",
   location |-> "accidentLogs", logPhotoUpload |-> "photos",
   upload |-> "photos", markPhotoAsViewed |-> "photos", view |-> "photos"]

\* C19: in a process that keeps files, once an operation that changes a
\* collection has returned with its write done, the file of the collection
\* holds the whole collection as it is in memory, the operation's change
\* included: the record saved, no record under the token deleted, the
\* entry appended, the photo record put, the viewed flag set.
C19_WriteThrough ==
  (~serverless /\ resp.written) =>
    /\ resp.op \in DOMAIN FileWritten
    /\ disk[FileWritten[resp.op]] = FileOf(Collections[FileWritten[resp.op]])
    /\ resp.op = "saveUser" => Own(disk.users, resp.arg.s) = JSONClone(resp.user)
    /\ resp.op = "deleteUser" => resp.arg.s \notin DOMAIN disk.users
    /\ resp.op = "location" =>
         /\ Len(disk.accidentLogs) = Len(resp.before.a) + 1
         /\ Prop(disk.accidentLogs[Len(disk.accidentLogs)], "token") = resp.arg
    /\ resp.op = "logPhotoUpload" =>
         Prop(Own(disk.photos, resp.arg.s), "viewed") = Bool(FALSE)
    /\ resp.op = "markPhotoAsViewed" =>
         Prop(Own(disk.photos, resp.arg.s), "viewed") = Bool(TRUE)

\* C19 happens: a record was marked viewed and written, in a process whose
\* files also hold an entry of the accident log.
C19_MarkedAndWritten ==
  /\ ~serverless
  /\ resp.op = "markPhotoAsViewed" /\ resp.written
  /\ Len(disk.accidentLogs) = 1
  /\ disk.users = EmptyMap

\* C20: in a serverless process the files are never written, whatever
\* operations run, and a process that has just started holds no user, no
\* accident log entry and no photo record, whatever the files hold.
C20_ServerlessSkipsFiles ==
  serverless =>
    /\ disk = InitialDisk
    /\ ~resp.written
    /\ resp.op \in {"none", "restart"} =>
         users = EmptyMap /\ accidentLogs = <<>> /\ photos = EmptyMap

\* C20 happens: a serverless process holds records in all three
\* collections, the last request having appended to the accident log.
C20_ServerlessStoreFilled ==
  /\ serverless
  /\ resp.op = "location" /\ resp.status = 200
  /\ Len(accidentLogs) = 2
  /\ users # EmptyMap
  /\ \E v \in DOMAIN photos : Prop(photos[v], "viewed") = Bool(TRUE)

\* C21: in a process that keeps files, an operation whose write of the
\* file fails leaves the file as it was, still changes the collection in
\* memory and still reports success (the location request is answered ok,
\* deleteUser returns true); the statistics and the recent entries read
\* afterwards in the same process are those of memory, not of the files.
C21_FailedWriteNotFatal ==
  [][ ~serverless =>
        /\ (resp'.op \in DOMAIN FileWritten /\ resp' # resp /\ ~resp'.written) =>
             disk' = disk
        /\ (Answered("saveUser") /\ ~resp'.written) =>
             Own(users', resp'.arg.s) = resp'.user
        /\ (Answered("deleteUser") /\ resp'.arg.s \in DOMAIN users) =>
             /\ resp'.body = Bool(TRUE)
             /\ resp'.arg.s \notin DOMAIN users'
        /\ (Answered("location") /\ ~resp'.written) =>
             /\ resp'.status = 200 /\ resp'.body = Okay
             /\ Len(accidentLogs') = Len(accidentLogs) + 1
             /\ Prop(accidentLogs'[Len(accidentLogs')], "token") = resp'.arg
        /\ (Answered("logPhotoUpload") /\ ~resp'.written) =>
             Prop(Own(photos', resp'.arg.s), "viewToken") = resp'.arg
        /\ (Answered("markPhotoAsViewed") /\ resp'.arg.s \in DOMAIN photos) =>
             Prop(Own(photos', resp'.arg.s), "viewed") = Bool(TRUE)
        /\ Answered("stats") =>
             /\ Prop(resp'.body, "totalUsers") = Num(Cardinality(DOMAIN users))
             /\ Prop(resp'.body, "totalAccidentLogs") = Num(Len(accidentLogs))
             /\ Prop(resp'.body, "totalPhotos") = Num(Cardinality(DOMAIN photos))
        /\ (Answered("getRecentAccidentLogs") /\ accidentLogs # <<>>) =>
             resp'.body.a[1] = accidentLogs[Len(accidentLogs)]
    ]_vars

\* C21 happens: in a process that keeps files the statistics were read
\* after failed writes: memory holds no user, an entry of the accident log
\* and a viewed photo record, while the files still hold the user, no
\* entry and no photo record.
C21_StatsAfterFailedWrites ==
  /\ ~serverless
  /\ resp.op = "stats"
  /\ Prop(resp.body, "totalUsers") = Num(0) /\ disk.users # EmptyMap
  /\ Prop(resp.body, "totalAccidentLogs") = Num(1) /\ disk.accidentLogs = <<>>
  /\ Prop(resp.body, "totalPhotos") = Num(1) /\ disk.photos = EmptyMap
  /\ \E v \in DOMAIN photos : Prop(photos[v], "viewed") = Bool(TRUE)

\* C22: decoding a token whose payload is a JSON object without one of the
\* subfields n, b, e, g, t, or with a contact without n or p, or with no
\* contact, gives null.
C22_MissingSubfieldIsNull ==
  (codec.op = "decode" /\ codec.in.s \in MissingSubfieldTokens) =>
    codec.out = Null

\* C23: two calls of encodeUserToken on the same profile return the same
\* token, whenever they are made.
C23_EncodeDeterministic ==
  (codec.op = "encode" /\ codec.out # Undefined) => codec.token = codec.out

\* C24: a registration answered 400 carries no token (the handler returned
\* before encodeUserToken), records none as issued and leaves users,
\* accident log, photos and files as they were; a registration answered
\* 200 puts its record under the token of its answer and touches nothing
\* else; within a process no other request adds a key to users.
C24_RejectedRegisterChangesNothing ==
  [][ /\ (Answered("register") /\ resp'.status = 400) =>
           /\ resp'.token = Undefined
           /\ Prop(resp'.body, "token") = Undefined
           /\ UNCHANGED <<users, accidentLogs, photos, disk, issued>>
      /\ (Answered("register") /\ resp'.status = 200) =>
           /\ users' = Put(users, Prop(resp'.body, "token").s, resp'.user)
           /\ DOMAIN issued' = DOMAIN issued \cup {Prop(resp'.body, "token").s}
           /\ UNCHANGED <<accidentLogs, photos>>
      /\ DOMAIN users' \ DOMAIN users # {} =>
           \/ Answered("register") /\ resp'.status = 200
           \/ Answered("restart")
    ]_vars

\* C24 happens: a registration whose last check (of the helplines) failed
\* was answered 400 by a process whose store holds a record.
C24_RejectedAtLastCheck ==
  /\ resp.op = "register" /\ resp.status = 400
  /\ resp.body = Obj([error |-> BadHelplineError])
  /\ users # EmptyMap
  /\ issued = EmptyMap

\* C25: a location request on a token that does not decode and that the
\* store holds no record under is answered 404 and leaves the accident log
\* as it was.
C25_UnknownTokenNotLogged ==
  resp.op = "location" =>
    ((decodeUserToken(resp.arg) = Null /\ resp.arg.s \notin DOMAIN users) =>
       /\ resp.status = 404
       /\ resp.after = resp.before
       /\ accidentLogs = resp.before.a)

\* C26: an upload whose token the public-profile lookup answers 200 for,
\* be it from the store or from the decoded token alone, is not answered
\* 'User not found'.
C26_UploadAcceptsResolvable ==
  resp.op = "upload" =>
    \A r \in {ResolveHandler(Prop(resp.arg, "token"))} :
      r.status = 200 =>
        ~(resp.status = 404 /\ resp.body = Obj([error |-> UserNotFoundError]))

\* The entries of the user record of a registration under key k.
Entries(user, k) == { Prop(user, k).a[i] : i \in 1..Len(Prop(user, k).a) }

\* C27: in the user record of every registration answered 200 each
\* emergency contact and each helpline has a name and a phone number that
\* are not empty.
C27_IssuedEntriesNonEmpty ==
  (resp.op = "register" /\ resp.status = 200) =>
    /\ \A c \in Entries(resp.user, "emergencyContacts") :
         Prop(c, "name").s # <<>> /\ Prop(c, "phone").s # <<>>
    /\ \A h \in Entries(resp.user, "governmentHelplines") :
         Prop(h, "name").s # <<>> /\ Prop(h, "number").s # <<>>

\* C28: a location request on a token that no registration issued and that
\* is no key of users is answered 404 and appends nothing to the accident
\* log, even when the token is the base64url text of a well-formed payload.
C28_OnlyIssuedOrStoredAccepted ==
  resp.op = "location" =>
    ((resp.arg.s \notin DOMAIN issued /\ resp.arg.s \notin DOMAIN users) =>
       /\ resp.status = 404
       /\ Len(resp.after.a) = Len(resp.before.a))

\* Every file holds what JSON.stringify writes of its collection.
Synced == \A name \in DOMAIN disk : disk[name] = FileOf(Collections[name])

\* A step in which an operation changed a collection and its write failed.
FailedWrite ==
  /\ resp' # resp
  /\ resp'.op \in DOMAIN FileWritten
  /\ Collections' # Collections
  /\ ~resp'.written

\* C29 as stated: in a process that keeps files, a restart that finds the
\* files in step with memory loads users, accident log and photo records
\* equal to those in memory before it.
C29_RestartLoadsMemory ==
  [][ (~serverless /\ Synced /\ Answered("restart")) =>
        Collections' = Collections
    ]_vars

\* C29, amended: in a process that keeps files the files are in step with
\* memory at the start and stay so over every step in which no write
\* fails; a restart in such a state loads the collections as JSON holds
\* them: every record and entry with every property that has a value, a
\* property whose value was undefined being absent.  Every stored user is
\* still stored and every photo record that was viewed is still viewed.
C29_RestartPreservesStore ==
  /\ ~serverless => Synced
  /\ [][ (~serverless /\ Synced) =>
           /\ ~FailedWrite => Synced'
           /\ Answered("restart") =>
                /\ users' = FileOf(users)
                /\ accidentLogs' = FileOf(accidentLogs)
                /\ photos' = FileOf(photos)
                /\ \A token \in DOMAIN users :
                     ~Falsy(Index(users', token))
                /\ \A v \in DOMAIN photos :
                     Prop(photos[v], "viewed") = Bool(TRUE) =>
                       Prop(Index(photos', v), "viewed") = Bool(TRUE)
       ]_vars

\* C29 happens: a process that keeps files has just started on files that
\* hold a user, two entries of the accident log and a viewed photo record.
C29_RestartedOnFilledFiles ==
  /\ ~serverless
  /\ resp.op = "restart"
  /\ LegacyToken \in DOMAIN users
  /\ Len(accidentLogs) = 2
  /\ \E v \in DOMAIN photos : Prop(photos[v], "viewed") = Bool(TRUE)

(***************************************************************************)
(* GET /api/qr/:token, and the Netlify function (netlify/functions/api.js) *)
(* that hands a request to the app and answers when its timer fires        *)
(***************************************************************************)
UnknownQrError == Str(<< "Unknown QR code" >>)
QrFailedError == Str(<< "Failed to generate QR code" >>)

ApplicationJson == Str(<< "application/json" >>)
ImagePng == Str(<< "image/png" >>)
TextHtml == Str(<< "text/html" >>)

\* A Buffer of the given bytes.
Buf(bytes) == [t |-> "buffer", bytes |-> bytes]

\* publicUrl of the QR handler in a process without SITE_URL and
\* VERCEL_URL, for a request without Host header.
QrPublicUrl(protocol, token) ==
  Str(protocol \o << ":", "/", "/", "l", "o", "c", "a", "l", "h", "o", "s", "t", ":", "3", "0", "0", "0", "/", "s", "c", "a", "n", "/" >> \o token.s)

\* QRCode.toBuffer(text) fulfilled: the image, its bytes standing for the
\* text it holds.
QrPng(text) == Buf(Utf8Bytes(<< "P", "N", "G", ":" >> \o text.s))

\* The QR handler once the user is looked up, QRCode.toBuffer being
\* fulfilled or rejected.
QrFound(found, token, protocol, generated) ==
  IF Falsy(found.user) THEN Response(404, UnknownQrError)
  ELSE IF generated THEN Response(200, QrPng(QrPublicUrl(protocol, token)))
  ELSE Response(500, QrFailedError)

QrHandler(token, protocol, generated) ==
  QrFound(LookupUser(token), token, protocol, generated)

\* GET /api/qr/:token asked of the app itself, over http.
Qr(token) ==
  /\ \E generated \in BOOLEAN :
       \E r \in {QrHandler(Str(token), << "h", "t", "t", "p" >>, generated)} :
         resp' = Reply("qr", Str(token), r.status, r.body)
  /\ UNCHANGED <<serverless, now, users, accidentLogs, photos, inherited,
                 disk, issued, served, codec, invocation>>

\* The mock response object of the Netlify function, on the variables of
\* the handler's closure: res.status(code), res.setHeader('Content-Type',
\* value), res.json(data) and res.send(data).
ResStatus(inv, code) == [inv EXCEPT !.statusCode = code]

ResSetHeader(inv, value) == [inv EXCEPT !.contentType = value]

ResJson(inv, data) ==
  [inv EXCEPT !.responseData = Str(JSONStringify(data)),
              !.contentType = ApplicationJson]

ResSend(inv, data) ==
  IF data.t = "buffer"
  THEN [inv EXCEPT !.responseData = Str(Base64Text(data.bytes)),
                   !.contentType = ImagePng]
  ELSE [inv EXCEPT !.responseData = data,
                   !.contentType = IF data.t = "string" /\ Falsy(@)
                                   THEN TextHtml ELSE @]

\* The closure of a call of the Netlify function before app(req, res).
Called(route, token) ==
  [pc |-> "called", route |-> route, token |-> token, statusCode |-> 200,
   contentType |-> ApplicationJson, responseData |-> Str(<<>>),
   pending |-> FALSE, result |-> Undefined]

\* The QR handler up to its await: the 404 is sent, or the header is set
\* and the handler waits for QRCode.toBuffer.
QrStarted(inv, found) ==
  IF Falsy(found.user) THEN ResSend(ResStatus(inv, 404), UnknownQrError)
  ELSE [ResSetHeader(inv, ImagePng) EXCEPT !.pending = TRUE]

\* The public-profile handler, which answers before it returns: with
\* res.json, or through the error handler's res.status(500).send.
PublicWritten(inv, r) ==
  IF r.status = 500 THEN ResSend(ResStatus(inv, 500), r.body)
  ELSE ResJson(ResStatus(inv, r.status), r.body)

\* app(req, res) on the mock objects, up to its return.
AppCalled(route, token) ==
  IF route = "qr" THEN QrStarted(Called(route, token), LookupUser(token))
  ELSE PublicWritten(Called(route, token), ResolveHandler(token))

\* exports.handler up to its await: the app is called and the timer of
\* 500 ms is set.  The process of the function keeps its store in memory
\* only and serves one call at a time.
NetlifyInvoke(route, token) ==
  /\ serverless
  /\ invocation.pc # "waiting"
  /\ invocation' = [AppCalled(route, Str(token)) EXCEPT !.pc = "waiting"]
  /\ UNCHANGED <<serverless, now, users, accidentLogs, photos, inherited,
                 disk, issued, served, resp, codec>>

\* QRCode.toBuffer settles and the QR handler goes on: res.send(qrBuffer),
\* or the catch clause's res.status(500).send.  This happens whenever the
\* image is ready, before or after the timer.
QrGenerated ==
  /\ invocation.pending
  /\ \E generated \in BOOLEAN :
       invocation' =
         [(IF generated
           THEN ResSend(invocation,
                  QrPng(QrPublicUrl(<< "h", "t", "t", "p", "s" >>, invocation.token)))
           ELSE ResSend(ResStatus(invocation, 500), QrFailedError))
            EXCEPT !.pending = FALSE]
  /\ UNCHANGED <<serverless, now, users, accidentLogs, photos, inherited,
                 disk, issued, served, resp, codec>>

\* The timer fires: the promise is resolved with the closure's variables
\* as they are, and the handler returns the result.
TimerFires ==
  /\ invocation.pc = "waiting"
  /\ invocation' =
       [invocation EXCEPT
          !.pc = "returned",
          !.result = [statusCode |-> invocation.statusCode,
                      contentType |-> invocation.contentType,
                      body |-> IF Falsy(invocation.responseData) THEN Str(<<>>)
                               ELSE invocation.responseData,
                      isBase64Encoded |-> invocation.contentType = ImagePng]]
  /\ UNCHANGED <<serverless, now, users, accidentLogs, photos, inherited,
                 disk, issued, served, resp, codec>>

NetlifyNext ==
  \/ \E token \in HandTokens : Qr(token)
  \/ \E route \in {"qr", "public"}, token \in HandTokens : NetlifyInvoke(route, token)
  \/ QrGenerated
  \/ TimerFires
  \/ Restart

NetlifySpec == Init /\ [][NetlifyNext]_vars

\* C30: when the Netlify function returns, the app has finished writing
\* its response, and the status code and the body returned are those the
\* app wrote.
C30_HandlerReturnsAppResponse ==
  invocation.pc = "returned" =>
    /\ ~invocation.pending
    /\ invocation.result.statusCode = invocation.statusCode
    /\ invocation.result.body = invocation.responseData

====
